---- MODULE Spec2Model ----
(***************************************************************************)
(* AVID-FP distributed object store: the storage node's Disperse / Echo /  *)
(* Ready / Retrieve handlers, the client's disperse and retrieve, the      *)
(* fingerprint, the fingerprinted cross-checksum (FPCC) and the erasure    *)
(* codec, modelled from the Go sources.                                    *)
(***************************************************************************)
EXTENDS Integers, Sequences, FiniteSets, Bags, TLC

(***************************************************************************)
(* uint64 arithmetic.  A uint64 is its 8 bytes, least significant first,   *)
(* so that res*r + b wraps modulo 2^64 exactly as Go's native uint64 does. *)
(***************************************************************************)
U64Limbs == 1..8

U64(lo) == [i \in U64Limbs |-> IF i = 1 THEN lo ELSE 0]

RECURSIVE U64AddFrom(_, _, _, _)
U64AddFrom(a, b, i, carry) ==
    IF i > 8 THEN <<>>
    ELSE LET s == a[i] + b[i] + carry
         IN  <<s % 256>> \o U64AddFrom(a, b, i + 1, s \div 256)

U64Add(a, b) == U64AddFrom(a, b, 1, 0)

RECURSIVE U64ColSum(_, _, _, _)
U64ColSum(a, b, k, i) ==
    IF i > k THEN 0 ELSE a[i] * b[k + 1 - i] + U64ColSum(a, b, k, i + 1)

RECURSIVE U64MulFrom(_, _, _, _)
U64MulFrom(a, b, k, carry) ==
    IF k > 8 THEN <<>>
    ELSE LET s == U64ColSum(a, b, k, 1) + carry
         IN  <<s % 256>> \o U64MulFrom(a, b, k + 1, s \div 256)

U64Mul(a, b) == U64MulFrom(a, b, 1, 0)

(***************************************************************************)
(* pkg/fingerprint: Eval by Horner's rule, res = res*r + b for each byte.  *)
(***************************************************************************)
RECURSIVE EvalFrom(_, _, _, _)
EvalFrom(r, data, i, res) ==
    IF i > Len(data) THEN res
    ELSE EvalFrom(r, data, i + 1, U64Add(U64Mul(res, r), U64(data[i])))

RECURSIVE EvalLowFirstFrom(_, _, _, _)
EvalLowFirstFrom(r, data, i, res) ==
    IF i < 1 THEN res
    ELSE EvalLowFirstFrom(r, data, i - 1, U64Add(U64Mul(res, r), U64(data[i])))

EvalLowFirst(r, data) == EvalLowFirstFrom(r, data, Len(data), U64(0))

Eval(r, data) == EvalFrom(r, data, 1, U64(0))

(***************************************************************************)
(* crypto/sha256.Sum256: a collision-free digest of the byte sequence.     *)
(***************************************************************************)
Sum256(data) == <<"sha256", data>>

(***************************************************************************)
(* klauspost/reedsolomon as pkg/erasure uses it: GF(2^8) with the field    *)
(* polynomial x^8+x^4+x^3+x^2+1, a systematic code whose shard r is the    *)
(* value at point r of the polynomial through (0, d0) .. (m-1, d(m-1)).    *)
(***************************************************************************)
RECURSIVE Xor(_, _)
Xor(a, b) ==
    IF a = 0 THEN b
    ELSE IF b = 0 THEN a
    ELSE ((a + b) % 2) + 2 * Xor(a \div 2, b \div 2)

GDouble(a) == IF 2 * a >= 256 THEN Xor(2 * a - 256, 29) ELSE 2 * a

RECURSIVE GMul(_, _)
GMul(a, b) ==
    IF b = 0 THEN 0
    ELSE Xor(IF b % 2 = 1 THEN a ELSE 0, GMul(GDouble(a), b \div 2))

GInv(a) == CHOOSE z \in 1..255 : GMul(a, z) = 1

RECURSIVE SetToSeq(_)
SetToSeq(S) ==
    IF S = {} THEN <<>>
    ELSE LET x == CHOOSE y \in S : \A z \in S : y <= z
         IN  <<x>> \o SetToSeq(S \ {x})

RECURSIVE GProd(_, _, _)
\* product over j in S \ {i} of (x - j) / (i - j)
GProd(S, i, x) ==
    IF S = {} THEN 1
    ELSE LET j == CHOOSE y \in S : TRUE
         IN  IF j = i THEN GProd(S \ {j}, i, x)
             ELSE GMul(GMul(Xor(x, j), GInv(Xor(i, j))), GProd(S \ {j}, i, x))

RECURSIVE GSum(_, _, _)
\* sum over i in T of coef[i] * shards[i][k]   (shard index i is 0-based)
GSum(T, coef, bytes) ==
    IF T = {} THEN 0
    ELSE LET i == CHOOSE y \in T : TRUE
         IN  Xor(GMul(coef[i], bytes[i]), GSum(T \ {i}, coef, bytes))

\* the shard at point x, from the shards at the points S (a function on S)
Interpolate(S, have, x) ==
    LET coef == [i \in S |-> GProd(S, i, x)]
        size == Len(have[CHOOSE i \in S : TRUE])
    IN  [k \in 1..size |-> GSum(S, coef, [i \in S |-> have[i][k]])]

\* a nil []byte
NoShard == <<>>

\* reedsolomon.Split: m data shards of ceil(len/m) bytes, zero padded
Split(input, m) ==
    LET per == (Len(input) + m - 1) \div m
    IN  [i \in 0..(m - 1) |->
            [k \in 1..per |->
                IF i * per + k <= Len(input) THEN input[i * per + k] ELSE 0]]

\* erasure.New: data <= 0 or total < data is refused
NewOk(data, total) == data > 0 /\ total >= data

\* Encoder.Encode: 1-based sequence of the n shards; Split refuses no data
EncodeOk(input) == Len(input) > 0

Encode(input, m, n) ==
    LET d == Split(input, m)
    IN  [r \in 1..n |->
            IF r <= m THEN d[r - 1] ELSE Interpolate(0..(m - 1), d, r - 1)]

Present(shards) == {i \in 1..Len(shards) : Len(shards[i]) > 0}

\* the first m present shards decide the reconstruction
FirstPresent(shards, m) ==
    LET s == SetToSeq(Present(shards))
    IN  {s[k] : k \in 1..m}

RECURSIVE Concat(_, _, _)
Concat(shards, i, m) ==
    IF i > m THEN <<>> ELSE shards[i] \o Concat(shards, i + 1, m)

SameSize(shards) ==
    \A i, j \in Present(shards) : Len(shards[i]) = Len(shards[j])

\* Encoder.Decode: shard-count check, Reconstruct, Join of outSize bytes
DecodeOk(shards, outSize, m, n) ==
    /\ Len(shards) = n
    /\ Cardinality(Present(shards)) >= m
    /\ SameSize(shards)
    /\ outSize <= m * Len(shards[CHOOSE i \in Present(shards) : TRUE])

Reconstruct(shards, m) ==
    LET S    == {i - 1 : i \in FirstPresent(shards, m)}
        have == [i \in S |-> shards[i + 1]]
    IN  [r \in 1..Len(shards) |->
            IF r \in Present(shards) THEN shards[r]
            ELSE Interpolate(S, have, r - 1)]

Decode(shards, outSize, m, n) ==
    SubSeq(Concat(Reconstruct(shards, m), 1, m), 1, outSize)

\* bytes.TrimRight(raw, "\x00")
RECURSIVE TrimRight(_)
TrimRight(raw) ==
    IF Len(raw) > 0 /\ raw[Len(raw)] = 0
    THEN TrimRight(SubSeq(raw, 1, Len(raw) - 1))
    ELSE raw

(***************************************************************************)
(* protocol.FPCC and its checks.                                           *)
(***************************************************************************)
\* a nil *protocol.FPCC
NilFPCC == [nil |-> TRUE]

\* client disperse(): hashes[i] = sha256(shard i), fps[i] = fpGen.Eval(shard i)
MakeFPCC(shards, seed) ==
    [Seed   |-> seed,
     Hashes |-> [i \in 1..Len(shards) |-> Sum256(shards[i])],
     Fps    |-> [i \in 1..Len(shards) |-> Eval(seed, shards[i])]]

\* eqFPCC: seed and both lengths, then Hashes[i] and Fps[i] for i in range Hashes
eqFPCC(a, b) ==
    /\ a.Seed = b.Seed
    /\ Len(a.Hashes) = Len(b.Hashes)
    /\ Len(a.Fps) = Len(b.Fps)
    /\ \A i \in 1..Len(a.Hashes) : a.Hashes[i] = b.Hashes[i] /\ a.Fps[i] = b.Fps[i]

\* the two integrity checks of server.Disperse (idx is the 0-based FragmentIndex)
HashOk(fpcc, idx, frag) == Sum256(frag) = fpcc.Hashes[idx + 1]

FpOk(fpcc, idx, frag) == Eval(fpcc.Seed, frag) = fpcc.Fps[idx + 1]

(***************************************************************************)
(* State.                                                                  *)
(***************************************************************************)
VARIABLES
    m, n,          \* server.m, server.n: data shards, total shards
    up,            \* up[s]: the node process is running
    fpccs,         \* server.fpccs      [node][object] -> FPCC or NilFPCC
    commitChan,    \* server.commitChan [node][object] -> "nil" | "open" | "closed"
    echoSeen,      \* server.echoSeen   [node][object] -> set of sender addresses
    readySeen,     \* server.readySeen  [node][object] -> set of sender addresses
    readySent,     \* server.readySent  [node][object] -> BOOLEAN
    files,         \* fragment files <datadir>/<object>/<idx>.bin
    tmps,          \* their siblings <idx>.bin.tmp
    fpccsBucket,   \* bolt bucket "fpccs"   [node][object]
    metaBucket,    \* bolt bucket "meta"    [node][object] -> created time or NoMeta
    echoPut,       \* keys handed to the Echo batcher   [node] -> set of <<object, addr>>
    readyPut,      \* keys handed to the Ready batcher
    echoBucket,    \* bolt bucket "echoSeen"   [node] -> set of <<object, addr>>
    readyBucket,   \* bolt bucket "readySeen"
    now,           \* the wall clock
    calls,         \* the Disperse handler invocations, running and returned
    net,           \* Echo / Ready RPCs under way (a bag)
    reqs,          \* the Disperse requests clients may send
    cl             \* the client process (disperse / retrieve)

vars == <<m, n, up, fpccs, commitChan, echoSeen, readySeen, readySent, files, tmps,
          fpccsBucket, metaBucket, echoPut, readyPut, echoBucket, readyBucket, now,
          calls, net, reqs, cl>>

nodeVars == <<fpccs, commitChan, echoSeen, readySeen, readySent, files, tmps,
              fpccsBucket, metaBucket, echoPut, readyPut, echoBucket, readyBucket>>

ObjectIds == {"obj"}

Nodes == 1..n

\* server.f = n - m
f == n - m

NoFile == <<-1>>

NoMeta == -1

\* the connections' source ports: each gossip RPC dials a connection of its own,
\* and the handler reads the sender from the connection's remote address
MaxPorts == 2

Ports == 1..MaxPorts

\* server.selfAddr, "localhost:<port>": never a connection's remote address
SelfAddr(s) == <<s, 0>>

PeerAddr(s, p) == <<s, p>>

FragKeys == {<<o, i>> : o \in ObjectIds, i \in 0..(n - 1)}

(***************************************************************************)
(* server.Disperse, one action per step of the handler.  A call is the     *)
(* record of one invocation: its request, where it stands (pc), what it    *)
(* answered (result, "" while it runs), and what it did on the way.        *)
(***************************************************************************)
Key(c) == <<c.o, c.idx>>

SetCall(i, c) == calls' = [calls EXCEPT ![i] = c]

Return(c, res) == [c EXCEPT !.pc = "done", !.result = res]

NewCall(s, r, who) ==
    [node |-> s, o |-> r.o, idx |-> r.idx, frag |-> r.frag, fpcc |-> r.fpcc,
     from |-> who, pc |-> "check", result |-> "", held |-> fpccs[s][r.o],
     fd |-> "none", stored |-> FALSE, echoed |-> FALSE]

HasStateNever(s, o) == FALSE

\* line 720: the object has a commit channel
HasState(s, o) == commitChan[s][o] # "nil"

\* lines 719-739, under s.mu: create the commit channel, pin the FPCC and count
\* the node's own Echo, or refuse a request whose FPCC differs from the pinned one
DisperseLocked(s, r, who) ==
    LET c == NewCall(s, r, who)
    IN  IF ~HasState(s, r.o)
        THEN /\ commitChan' = [commitChan EXCEPT ![s][r.o] = "open"]
             /\ fpccs' = [fpccs EXCEPT ![s][r.o] = r.fpcc]
             /\ echoSeen' = [echoSeen EXCEPT ![s][r.o] = @ \cup {SelfAddr(s)}]
             /\ metaBucket' = [metaBucket EXCEPT ![s][r.o] = now]
             /\ calls' = Append(calls, c)
        ELSE /\ UNCHANGED <<commitChan, fpccs, echoSeen, metaBucket>>
             /\ IF ~eqFPCC(fpccs[s][r.o], r.fpcc)
                THEN calls' = Append(calls, Return(c, "FPCC mismatch"))
                ELSE calls' = Append(calls, c)

\* a Disperse RPC of some client reaches node r.node
DisperseBegin(r) ==
    /\ r \in reqs
    /\ up[r.node]
    /\ reqs' = reqs \ {r}
    /\ DisperseLocked(r.node, r, "any")
    /\ UNCHANGED <<m, n, up, readySeen, readySent, files, tmps, fpccsBucket,
                   echoPut, readyPut, echoBucket,
                   readyBucket, now, net, cl>>

DisperseCheckNone(i) ==
    LET c == calls[i]
    IN  /\ c.pc = "check"
        /\ SetCall(i, IF files[c.node][Key(c)] # NoFile
                      THEN [c EXCEPT !.pc = "bucket"] ELSE [c EXCEPT !.pc = "open"])
        /\ UNCHANGED <<m, n, up, nodeVars, now, net, reqs, cl>>

\* lines 742-748 and persistFragment's os.Stat: the two integrity checks, then
\* whether the fragment file is already there
DisperseCheck(i) ==
    LET c == calls[i]
    IN  /\ c.pc = "check"
        /\ SetCall(i, IF ~HashOk(c.fpcc, c.idx, c.frag) THEN Return(c, "hash mismatch")
                      ELSE IF ~FpOk(c.fpcc, c.idx, c.frag)
                           THEN Return(c, "fingerprint mismatch")
                      ELSE IF files[c.node][Key(c)] # NoFile
                           THEN [c EXCEPT !.pc = "bucket"]
                      ELSE [c EXCEPT !.pc = "open"])
        /\ UNCHANGED <<m, n, up, nodeVars, now, net, reqs, cl>>

\* AtomicWrite, os.WriteFile(tmp): open with O_CREATE|O_TRUNC empties the file
DisperseOpen(i) ==
    LET c == calls[i]
    IN  /\ c.pc = "open"
        /\ tmps' = [tmps EXCEPT ![c.node][Key(c)] = <<>>]
        /\ SetCall(i, [c EXCEPT !.pc = "write", !.fd = "tmp"])
        /\ UNCHANGED <<m, n, up, fpccs, commitChan, echoSeen, readySeen, readySent,
                       files, fpccsBucket, metaBucket, echoPut, readyPut, echoBucket,
                   readyBucket, now, net,
                       reqs, cl>>

\* AtomicWrite, os.WriteFile(tmp): the write goes to the file the descriptor is
\* open on, wherever a rename has moved it since
DisperseWrite(i) ==
    LET c == calls[i]
    IN  /\ c.pc = "write"
        /\ tmps' = IF c.fd = "tmp" THEN [tmps EXCEPT ![c.node][Key(c)] = c.frag]
                   ELSE tmps
        /\ files' = IF c.fd = "final" THEN [files EXCEPT ![c.node][Key(c)] = c.frag]
                    ELSE files
        /\ SetCall(i, [c EXCEPT !.pc = "rename", !.fd = "none"])
        /\ UNCHANGED <<m, n, up, fpccs, commitChan, echoSeen, readySeen, readySent,
                       fpccsBucket, metaBucket, echoPut, readyPut, echoBucket,
                   readyBucket, now, net, reqs, cl>>

\* what a rename of <idx>.bin.tmp onto <idx>.bin does to the descriptors open on them
Moved(d, j, i) ==
    IF j # i /\ d.node = calls[i].node /\ Key(d) = Key(calls[i]) /\ d.pc = "write"
    THEN [d EXCEPT !.fd = IF d.fd = "tmp" THEN "final" ELSE "orphan"]
    ELSE d

\* AtomicWrite, os.Rename(tmp, path); an error ends the handler ("fragment write")
DisperseRename(i) ==
    LET c == calls[i]
    IN  /\ c.pc = "rename"
        /\ IF tmps[c.node][Key(c)] = NoFile
           THEN /\ SetCall(i, Return(c, "fragment write"))
                /\ UNCHANGED <<files, tmps>>
           ELSE /\ files' = [files EXCEPT ![c.node][Key(c)] = tmps[c.node][Key(c)]]
                /\ tmps' = [tmps EXCEPT ![c.node][Key(c)] = NoFile]
                /\ calls' = [j \in DOMAIN calls |->
                                IF j = i THEN [c EXCEPT !.pc = "bucket", !.stored = TRUE]
                                ELSE Moved(calls[j], j, i)]
        /\ UNCHANGED <<m, n, up, fpccs, commitChan, echoSeen, readySeen, readySent,
                       fpccsBucket, metaBucket, echoPut, readyPut, echoBucket,
                   readyBucket, now, net, reqs, cl>>

Msg(type, src, dst, o, fpcc) ==
    [type |-> type, src |-> src, dst |-> dst, o |-> o, fpcc |-> fpcc]

\* broadcastEcho / broadcastReady: one RPC per peer, to the peers that can be dialled
Broadcast(type, s, o, fpcc) ==
    SetToBag({Msg(type, s, d, o, fpcc) : d \in {x \in Nodes : up[x]}})

\* lines 753-763: put the FPCC in the fpccs bucket unless one is there, and start
\* the Echo broadcast
DisperseGossip(i) ==
    LET c == calls[i]
    IN  /\ c.pc = "bucket"
        /\ fpccsBucket' = IF fpccsBucket[c.node][c.o] = NilFPCC
                          THEN [fpccsBucket EXCEPT ![c.node][c.o] = c.fpcc]
                          ELSE fpccsBucket
        /\ net' = net (+) Broadcast("Echo", c.node, c.o, c.fpcc)
        /\ SetCall(i, [c EXCEPT !.pc = "wait", !.echoed = TRUE])
        /\ UNCHANGED <<m, n, up, fpccs, commitChan, echoSeen, readySeen, readySent,
                       files, tmps, metaBucket, echoPut, readyPut, echoBucket,
                   readyBucket, now, reqs, cl>>

DisperseCommittedTimedOut(i) ==
    LET c == calls[i]
    IN  /\ c.pc = "wait"
        /\ commitChan[c.node][c.o] = "closed"
        /\ SetCall(i, Return(c, "timeout waiting for readies"))
        /\ UNCHANGED <<m, n, up, nodeVars, now, net, reqs, cl>>

\* lines 765-767: the commit channel is closed
DisperseCommitted(i) ==
    LET c == calls[i]
    IN  /\ c.pc = "wait"
        /\ commitChan[c.node][c.o] = "closed"
        /\ SetCall(i, Return(c, "ok"))
        /\ UNCHANGED <<m, n, up, nodeVars, now, net, reqs, cl>>

DisperseNoTimeout(i) == FALSE

\* lines 768-769: disperseTimeout has passed
DisperseTimeout(i) ==
    LET c == calls[i]
    IN  /\ c.pc = "wait"
        /\ SetCall(i, Return(c, "timeout waiting for readies"))
        /\ UNCHANGED <<m, n, up, nodeVars, now, net, reqs, cl>>

(***************************************************************************)
(* server.Echo and server.Ready.  The sender is the remote address of the  *)
(* connection the RPC came in on, <<src, p>> for some source port p.       *)
(***************************************************************************)
EchoThresholdNever(s, o, seen) == FALSE

\* lines 785-794
EchoThreshold(s, o, seen) == Cardinality(seen) >= m + f /\ ~readySent[s][o]

Echo(msg, p, rest) ==
    LET s    == msg.dst
        seen == echoSeen[s][msg.o] \cup {PeerAddr(msg.src, p)}
    IN  /\ msg.type = "Echo"
        /\ up[s]
        /\ net' = rest (+)
                  (IF EchoThreshold(s, msg.o, seen)
                   THEN Broadcast("Ready", s, msg.o, msg.fpcc) ELSE EmptyBag)
        /\ echoSeen' = [echoSeen EXCEPT ![s][msg.o] = seen]
        /\ readySent' = [readySent EXCEPT ![s][msg.o] = @ \/ EchoThreshold(s, msg.o, seen)]
        /\ echoPut' = [echoPut EXCEPT ![s] = @ \cup {<<msg.o, PeerAddr(msg.src, p)>>}]
        /\ UNCHANGED <<m, n, up, fpccs, commitChan, readySeen, files, tmps, fpccsBucket,
                       metaBucket, readyPut, echoBucket,
                   readyBucket, now, calls, reqs, cl>>

ReadyThresholdWeak(seen) == Cardinality(seen) >= 2 * f

\* lines 814-822
ReadyThreshold(seen) == Cardinality(seen) >= 2 * f + 1

Ready(msg, p, rest) ==
    LET s    == msg.dst
        seen == readySeen[s][msg.o] \cup {PeerAddr(msg.src, p)}
    IN  /\ msg.type = "Ready"
        /\ up[s]
        /\ net' = rest
        /\ readySeen' = [readySeen EXCEPT ![s][msg.o] = seen]
        /\ commitChan' = IF ReadyThreshold(seen) /\ commitChan[s][msg.o] = "open"
                         THEN [commitChan EXCEPT ![s][msg.o] = "closed"]
                         ELSE commitChan
        /\ readyPut' = [readyPut EXCEPT ![s] = @ \cup {<<msg.o, PeerAddr(msg.src, p)>>}]
        /\ UNCHANGED <<m, n, up, fpccs, echoSeen, readySent, files, tmps, fpccsBucket,
                       metaBucket, echoPut, echoBucket,
                   readyBucket, now, calls, reqs, cl>>

(***************************************************************************)
(* The cluster and the requests clients send.                              *)
(***************************************************************************)
\* the (m, n) the cluster runs with: f = 1, Echo threshold m+f = 3 = n, Ready
\* threshold 2f+1 = 3 = n, as 3-of-5 has both thresholds at n = 5
DataShards == 2

TotalShards == 3

BlobA == <<1, 2>>

BlobB == <<3, 0>>

SeedA == U64(3)

SeedB == U64(1)

ShardsA == Encode(BlobA, DataShards, TotalShards)

ShardsB == Encode(BlobB, DataShards, TotalShards)

FpccA == MakeFPCC(ShardsA, SeedA)

FpccB == MakeFPCC(ShardsB, SeedB)

\* an FPCC with one more fingerprint than hashes (Fps is a repeated field of the
\* message, of any length)
Longer(fpcc, extra) == [fpcc EXCEPT !.Fps = Append(@, U64(extra))]

FpccP == Longer(FpccA, 7)

FpccQ == Longer(FpccA, 9)

Req(s, idx, frag, fpcc, k) ==
    [node |-> s, o |-> "obj", idx |-> idx, frag |-> frag, fpcc |-> fpcc, k |-> k]

NoClient == [pc |-> "off"]

InitStores ==
    /\ fpccs = [s \in Nodes |-> [o \in ObjectIds |-> NilFPCC]]
    /\ commitChan = [s \in Nodes |-> [o \in ObjectIds |-> "nil"]]
    /\ echoSeen = [s \in Nodes |-> [o \in ObjectIds |-> {}]]
    /\ readySeen = [s \in Nodes |-> [o \in ObjectIds |-> {}]]
    /\ readySent = [s \in Nodes |-> [o \in ObjectIds |-> FALSE]]
    /\ files = [s \in Nodes |-> [k \in FragKeys |-> NoFile]]
    /\ tmps = [s \in Nodes |-> [k \in FragKeys |-> NoFile]]
    /\ fpccsBucket = [s \in Nodes |-> [o \in ObjectIds |-> NilFPCC]]
    /\ metaBucket = [s \in Nodes |-> [o \in ObjectIds |-> NoMeta]]
    /\ echoPut = [s \in Nodes |-> {}]
    /\ readyPut = [s \in Nodes |-> {}]
    /\ echoBucket = [s \in Nodes |-> {}]
    /\ readyBucket = [s \in Nodes |-> {}]
    /\ now = 0
    /\ calls = <<>>
    /\ net = EmptyBag

InitNodes ==
    /\ up = [s \in Nodes |-> TRUE]
    /\ InitStores

(***************************************************************************)
(* Spec: one node (node 1) and all its handlers' steps interleaved, under  *)
(* any peers and clients.  Clients send it up to MaxCalls of the requests  *)
(* below, concurrently; Echo and Ready RPCs reach it at any time, from any *)
(* connection and with any FPCC.                                           *)
(***************************************************************************)
MaxCalls == 2

\* two copies of a well-formed request, one for the same fragment whose FPCC has
\* another extra fingerprint, one of an equivocating client (the FPCC of another
\* blob), one whose fragment is not the one its FPCC commits to
NodeReqs ==
    { Req(1, 0, ShardsA[1], FpccP, 1),
      Req(1, 0, ShardsA[1], FpccP, 2),
      Req(1, 0, ShardsA[1], FpccQ, 1),
      Req(1, 0, ShardsB[1], FpccB, 1),
      Req(1, 0, ShardsA[2], FpccP, 1) }

Init ==
    /\ m = DataShards
    /\ n = TotalShards
    /\ InitNodes
    /\ reqs = NodeReqs
    /\ cl = NoClient

\* the connections RPCs come in on: an address the handler has seen, or the next
\* one it has not (which addresses they are is immaterial to the handlers)
Addrs == {PeerAddr(s, p) : s \in Nodes, p \in Ports}

Before(a, b) == a[1] < b[1] \/ (a[1] = b[1] /\ a[2] <= b[2])

NextAddrs(seen) ==
    {a \in Addrs : a \in seen \/ \A b \in Addrs \ seen : Before(a, b)}

\* the FPCCs clients have made for the object
SentFpccs == {r.fpcc : r \in reqs} \cup {calls[i].fpcc : i \in DOMAIN calls}

PeerEcho ==
    \E a \in NextAddrs(echoSeen[1]["obj"]) : \E fpcc \in SentFpccs :
        Echo(Msg("Echo", a[1], 1, "obj", fpcc), a[2], net)

\* (the Ready handler does not read the FPCC of the request)
PeerReady ==
    \E a \in NextAddrs(readySeen[1]["obj"]) :
        Ready(Msg("Ready", a[1], 1, "obj", CHOOSE x \in SentFpccs : TRUE), a[2], net)

Next ==
    \/ Len(calls) < MaxCalls /\ \E r \in reqs : DisperseBegin(r)
    \/ \E i \in DOMAIN calls : DisperseCheck(i)
    \/ \E i \in DOMAIN calls : DisperseOpen(i)
    \/ \E i \in DOMAIN calls : DisperseWrite(i)
    \/ \E i \in DOMAIN calls : DisperseRename(i)
    \/ \E i \in DOMAIN calls : DisperseGossip(i)
    \/ \E i \in DOMAIN calls : DisperseCommitted(i)
    \/ \E i \in DOMAIN calls : DisperseTimeout(i)
    \/ PeerEcho
    \/ PeerReady

Spec == Init /\ [][Next]_vars

(***************************************************************************)
(* Claims on one node, checked under Spec.                                 *)
(***************************************************************************)
\* the Disperse calls node s has taken for o, in the order they held s.mu
CallsOf(s, o) == {i \in DOMAIN calls : calls[i].node = s /\ calls[i].o = o}

FirstOf(S) == CHOOSE i \in S : \A j \in S : i <= j

\* a call the node did not reject: it passed the FPCC comparison and both
\* integrity checks
Rejections == {"FPCC mismatch", "hash mismatch", "fingerprint mismatch"}

Accepted(c) == c.pc # "check" /\ c.result \notin Rejections

Verifies(fpcc, idx, frag) ==
    /\ fpcc # NilFPCC
    /\ idx + 1 <= Len(fpcc.Hashes) /\ idx + 1 <= Len(fpcc.Fps)
    /\ HashOk(fpcc, idx, frag)
    /\ FpOk(fpcc, idx, frag)

\* C3: at any time, also while Disperse calls run concurrently, every fragment
\* file a node has for (o, i) verifies against the FPCC the node holds for o: its
\* SHA-256 is hashes[i] and its fingerprint under seed is fps[i].
C3_Integrity ==
    \A s \in Nodes, k \in FragKeys :
        files[s][k] # NoFile => Verifies(fpccs[s][k[1]], k[2], files[s][k])

C5_EquivocationRejected ==
    \A i \in DOMAIN calls :
        LET c == calls[i]
        IN  (c.held # NilFPCC /\ c.fpcc # c.held) =>
                /\ c.result = "FPCC mismatch"
                /\ ~c.stored /\ ~c.echoed
                /\ fpccs[c.node][c.o] = c.held

(***************************************************************************)
(* Cluster: the n nodes and the gossip among them.  Clients send requests  *)
(* to several nodes, one of them the FPCC of another blob (an equivocating *)
(* client).  Every Echo and Ready RPC a node starts is delivered.          *)
(*                                                                         *)
(* Two kinds of step are taken as soon as they can be, with no other step  *)
(* before them.  A handler's steps between the locked section and the wait *)
(* touch only the call, the fragment file of its own key and the fpccs     *)
(* bucket.  An Echo or Ready RPC to a node that has the object's commit    *)
(* channel adds its sender to a set and may send Ready or close the        *)
(* channel, whatever went before.  What is left to the schedule is when a  *)
(* Disperse arrives at a node, and which RPCs reach the node before its    *)
(* first Disperse does.                                                    *)
(***************************************************************************)
ClusterReqs ==
    { Req(1, 0, ShardsA[1], FpccA, 1),
      Req(2, 0, ShardsB[1], FpccB, 1),
      Req(1, 1, ShardsA[2], FpccA, 1),
      Req(3, 0, ShardsA[1], FpccA, 1) }

ClusterInit ==
    /\ m = DataShards
    /\ n = TotalShards
    /\ InitNodes
    /\ reqs = ClusterReqs
    /\ cl = NoClient

LocalPcs == {"check", "open", "write", "rename", "bucket"}

Busy == \E i \in DOMAIN calls : calls[i].pc \in LocalPcs

LocalStep(i) ==
    \/ DisperseCheck(i)
    \/ DisperseOpen(i)
    \/ DisperseWrite(i)
    \/ DisperseRename(i)
    \/ DisperseGossip(i)

\* the senders node dst has recorded for the RPCs of msg's type
SeenBy(msg) ==
    IF msg.type = "Echo" THEN echoSeen[msg.dst][msg.o] ELSE readySeen[msg.dst][msg.o]

\* the connection msg comes in on: a source port of msg.src the receiver has seen
\* on an RPC of this type, or the next one it has not (a handler compares a
\* sender with the senders of its own set only, and only for equality)
UsedPorts(msg) == {p \in Ports : PeerAddr(msg.src, p) \in SeenBy(msg)}

NewPorts(msg) ==
    {p \in Ports : p \in UsedPorts(msg) \/ \A q \in Ports \ UsedPorts(msg) : p <= q}

\* an RPC whose sender the receiver will not count again: an Echo after the
\* receiver's Ready went out, a Ready after its commit channel was closed
Late(msg) ==
    \/ msg.type = "Echo" /\ readySent[msg.dst][msg.o]
    \/ msg.type = "Ready" /\ commitChan[msg.dst][msg.o] = "closed"

\* (for a late RPC one port stands for all: a fresh one while there is one)
PortsOf(msg) ==
    IF Late(msg)
    THEN {p \in NewPorts(msg) : \A q \in NewPorts(msg) : q <= p}
    ELSE NewPorts(msg)

Deliver(msg) ==
    \E p \in PortsOf(msg) :
        \/ Echo(msg, p, net (-) SetToBag({msg}))
        \/ Ready(msg, p, net (-) SetToBag({msg}))

\* an RPC to a node that has the commit channel of the object
Prompt == {msg \in BagToSet(net) : HasState(msg.dst, msg.o)}

Rank(msg) == 100 * msg.dst + 10 * (IF msg.type = "Echo" THEN 0 ELSE 1) + msg.src

\* RPCs to nodes that have the commit channel commute: one order of them
FirstPrompt == CHOOSE msg \in Prompt : \A other \in Prompt : Rank(msg) <= Rank(other)

Calm == ~Busy /\ Prompt = {}

\* no RPC is under way; disperseTimeout (20 s) outlasts the gossip RPCs
Quiet == net = EmptyBag

ClusterNext ==
    \/ \E i \in DOMAIN calls : LocalStep(i)
    \/ ~Busy /\ Prompt # {} /\ Deliver(FirstPrompt)
    \/ Calm /\ \E msg \in BagToSet(net) : Deliver(msg)
    \/ Calm /\ \E r \in reqs : DisperseBegin(r)
    \/ Calm /\ \E i \in DOMAIN calls : DisperseCommitted(i)
    \/ Calm /\ Quiet /\ \E i \in DOMAIN calls : DisperseTimeout(i)

Cluster == ClusterInit /\ [][ClusterNext]_vars

(***************************************************************************)
(* Claims on the cluster, checked under Cluster.                           *)
(***************************************************************************)
\* a node has committed o: its commit channel for o is closed
Committed(s, o) == commitChan[s][o] = "closed"

\* C2: two nodes that have both committed o hold the same FPCC for o.
C2_Agreement ==
    \A s, t \in Nodes, o \in ObjectIds :
        (Committed(s, o) /\ Committed(t, o)) => fpccs[s][o] = fpccs[t][o]

\* every request has been sent, every RPC delivered, every Disperse has returned:
\* no step is left to take
AtRest ==
    /\ reqs = {}
    /\ net = EmptyBag
    /\ \A i \in DOMAIN calls : calls[i].pc = "done"

\* C6: once every message has been delivered, if some node has committed o then
\* all nodes have committed o.
C6_Totality ==
    \A o \in ObjectIds :
        (AtRest /\ \E s \in Nodes : Committed(s, o)) => \A s \in Nodes : Committed(s, o)

(***************************************************************************)
(* The client: disperse() and fanOutShard().  Round i offers shard i to    *)
(* every server at once, one goroutine per server, and waits for them all. *)
(***************************************************************************)
Servers == Nodes

\* the client process before it has run
NewClient(blob, seed) ==
    [pc |-> "start", blob |-> blob, seed |-> seed, shards |-> <<>>, fpcc |-> NilFPCC,
     round |-> 0, rpc |-> [s \in Servers |-> 0], attempt |-> [s \in Servers |-> 1],
     sent |-> {}, srv |-> 1, idx |-> 0, got |-> <<>>, rfpcc |-> NilFPCC,
     received |-> 0, out |-> NoFile, err |-> ""]

Fatal(c, msg) == [c EXCEPT !.pc = "fatal", !.err = msg]

\* lines 325-356: erasure.New, Encode, the hashes and fingerprints, the FPCC
ClientEncode ==
    /\ cl.pc = "start"
    /\ cl' = IF ~NewOk(m, n) THEN Fatal(cl, "erasure.New")
             ELSE IF ~EncodeOk(cl.blob) THEN Fatal(cl, "Encode")
             ELSE LET shards == Encode(cl.blob, m, n)
                  IN  [cl EXCEPT !.pc = "fanout", !.shards = shards,
                                 !.fpcc = MakeFPCC(shards, cl.seed)]
    /\ UNCHANGED <<m, n, up, nodeVars, now, calls, net, reqs>>

\* one more failed attempt of fanOutShard for server s (lines 381-398)
Failed(c, s) ==
    IF c.attempt[s] >= 3 THEN Fatal(c, "failed after 3 attempts")
    ELSE [c EXCEPT !.attempt[s] = @ + 1, !.rpc[s] = 0]

\* fanOutShard, lines 379-388: dial server s and send it the Disperse of the round
ClientSend(s) ==
    LET r == Req(s, cl.round, cl.shards[cl.round + 1], cl.fpcc, 0)
    IN  /\ cl.pc = "fanout"
        /\ s \notin cl.sent
        /\ cl.rpc[s] = 0
        /\ IF up[s]
           THEN /\ DisperseLocked(s, r, "client")
                /\ cl' = [cl EXCEPT !.rpc[s] = Len(calls) + 1]
           ELSE /\ cl' = Failed(cl, s)
                /\ UNCHANGED <<commitChan, fpccs, echoSeen, metaBucket, calls>>
        /\ UNCHANGED <<m, n, up, readySeen, readySent, files, tmps, fpccsBucket,
                       echoPut, readyPut, echoBucket,
                   readyBucket, now, net, reqs>>

\* fanOutShard, lines 388-396: the response of server s
ClientRecv(s) ==
    /\ cl.pc = "fanout"
    /\ cl.rpc[s] # 0
    /\ calls[cl.rpc[s]].pc = "done"
    /\ cl' = IF calls[cl.rpc[s]].result = "ok"
             THEN [cl EXCEPT !.sent = @ \cup {s}, !.rpc[s] = 0]
             ELSE Failed(cl, s)
    /\ UNCHANGED <<m, n, up, nodeVars, now, calls, net, reqs>>

\* lines 370-373: every goroutine of the round has returned
ClientRound ==
    /\ cl.pc = "fanout"
    /\ cl.sent = Servers
    /\ cl' = IF cl.round + 1 < Len(cl.shards)
             THEN [cl EXCEPT !.round = @ + 1, !.sent = {},
                             !.attempt = [s \in Servers |-> 1]]
             ELSE [cl EXCEPT !.pc = "complete", !.sent = {}]
    /\ UNCHANGED <<m, n, up, nodeVars, now, calls, net, reqs>>

(***************************************************************************)
(* Happy: one client disperses one blob to a cluster whose nodes are all   *)
(* up and answer in time (no Disperse waits out its 20 s), with the        *)
(* schedule of Cluster.  Every goroutine that can take a step takes one    *)
(* in the end.                                                             *)
(***************************************************************************)
MaxBlobLen == 2

Bytes == {0, 7, 255}

RECURSIVE SeqsUpTo(_)
SeqsUpTo(k) ==
    IF k = 0 THEN {<<>>}
    ELSE SeqsUpTo(k - 1) \cup
         {Append(b, x) : b \in {c \in SeqsUpTo(k - 1) : Len(c) = k - 1}, x \in Bytes}

Blobs == SeqsUpTo(MaxBlobLen)

\* fingerprint.NewRandom: 8 bytes of crypto/rand
Seeds == {SeedA, [i \in U64Limbs |-> 255]}

HappyInit ==
    /\ m = DataShards
    /\ n = TotalShards
    /\ InitNodes
    /\ reqs = {}
    /\ cl = NewClient(BlobA, SeedA)

Gossip ==
    \/ ~Busy /\ Prompt # {} /\ Deliver(FirstPrompt)
    \/ Calm /\ \E msg \in BagToSet(net) : Deliver(msg)

ClientDisperse ==
    \/ ClientEncode
    \/ \E s \in Servers : ClientSend(s)
    \/ \E s \in Servers : ClientRecv(s)
    \/ ClientRound

\* a handler waiting on a closed commit channel: it returns before the client's
\* goroutines go on (its return commutes with their steps)
Waking ==
    \E i \in DOMAIN calls :
        calls[i].pc = "wait" /\ commitChan[calls[i].node][calls[i].o] = "closed"

HappyNext ==
    \/ \E i \in DOMAIN calls : LocalStep(i)
    \/ Gossip
    \/ Calm /\ \E i \in DOMAIN calls : DisperseCommitted(i)
    \/ Calm /\ ~Waking /\ ClientDisperse

Happy == HappyInit /\ [][HappyNext]_vars /\ WF_vars(HappyNext)

\* the Disperse calls of node s that have started the Echo broadcast
Echoed(s) == \E i \in DOMAIN calls : calls[i].node = s /\ calls[i].echoed

HappyDone ==
    /\ cl.pc = "complete"
    /\ Len(calls) = n * n
    /\ \A i \in DOMAIN calls : calls[i].from = "client" /\ calls[i].result = "ok"
    /\ \A s \in Nodes, o \in ObjectIds :
        Echoed(s) /\ readySent[s][o] /\ Committed(s, o)

Retrieve(s, o, idx) ==
    IF files[s][<<o, idx>>] = NoFile
    THEN [Ok |-> FALSE, Fragment |-> NoShard, Fpcc |-> NilFPCC]
    ELSE [Ok |-> TRUE, Fragment |-> files[s][<<o, idx>>], Fpcc |-> fpccs[s][o]]

ClientVerifyNone(fpcc, idx, frag) == TRUE

\* lines 430-432 and 456-457: the SHA-256 and the fingerprint of the fragment
ClientVerify(fpcc, idx, frag) == HashOk(fpcc, idx, frag) /\ FpOk(fpcc, idx, frag)

\* a new run of the client, in retrieve mode (lines 401-419)
RetrieveStart ==
    /\ cl.pc = "complete"
    /\ cl' = [cl EXCEPT !.pc = "shard0", !.srv = 1, !.idx = 0, !.received = 0,
                        !.got = [i \in 1..n |-> NoShard], !.rfpcc = NilFPCC]
    /\ UNCHANGED <<m, n, up, nodeVars, now, calls, net, reqs>>

\* lines 420-442: ask the next server for shard 0 and the FPCC
RetrieveShard0 ==
    LET s == cl.srv
        r == Retrieve(s, "obj", 0)
    IN  /\ cl.pc = "shard0"
        /\ cl' = IF s > n THEN Fatal(cl, "failed to retrieve a valid shard-0")
                 ELSE IF ~up[s] \/ ~r.Ok THEN [cl EXCEPT !.srv = @ + 1]
                 ELSE IF r.Fpcc = NilFPCC THEN [cl EXCEPT !.pc = "panic"]
                 ELSE IF ~ClientVerify(r.Fpcc, 0, r.Fragment) THEN [cl EXCEPT !.srv = @ + 1]
                 ELSE [cl EXCEPT !.pc = "others", !.rfpcc = r.Fpcc, !.got[1] = r.Fragment,
                                 !.received = 1, !.idx = 1, !.srv = 1]
        /\ UNCHANGED <<m, n, up, nodeVars, now, calls, net, reqs>>

\* lines 445-467: the other shards, until m are in hand
RetrieveOther ==
    LET s == cl.srv
        r == Retrieve(s, "obj", cl.idx)
    IN  /\ cl.pc = "others"
        /\ cl' = IF ~(cl.idx < n /\ cl.received < m)
                 THEN IF cl.received < m THEN Fatal(cl, "cannot decode")
                      ELSE [cl EXCEPT !.pc = "decode"]
                 ELSE IF s > n THEN [cl EXCEPT !.idx = @ + 1, !.srv = 1]
                 ELSE IF ~up[s] \/ ~r.Ok THEN [cl EXCEPT !.srv = @ + 1]
                 ELSE IF ~ClientVerify(cl.rfpcc, cl.idx, r.Fragment)
                      THEN [cl EXCEPT !.srv = @ + 1]
                 ELSE [cl EXCEPT !.got[cl.idx + 1] = r.Fragment, !.received = @ + 1,
                                 !.idx = @ + 1, !.srv = 1]
        /\ UNCHANGED <<m, n, up, nodeVars, now, calls, net, reqs>>

\* lines 470-479: decode len(shards[0])*m bytes, trim the zero bytes at the end,
\* write the output file
RetrieveDecode ==
    LET size == Len(cl.got[1]) * m
    IN  /\ cl.pc = "decode"
        /\ cl' = IF ~DecodeOk(cl.got, size, m, n) THEN Fatal(cl, "Decode")
                 ELSE [cl EXCEPT !.pc = "written",
                                 !.out = TrimRight(Decode(cl.got, size, m, n))]
        /\ UNCHANGED <<m, n, up, nodeVars, now, calls, net, reqs>>

ClientRetrieve ==
    \/ RetrieveStart
    \/ RetrieveShard0
    \/ RetrieveOther
    \/ RetrieveDecode

(***************************************************************************)
(* Client: a client disperses a blob to a cluster whose nodes are all up,  *)
(* then nodes are stopped and fragment files are corrupted on disk, then a *)
(* client retrieves the object.  The goroutines of a round reach their     *)
(* servers in the order of the server list (what retrieve() finds on the   *)
(* nodes after a complete disperse does not depend on that order).         *)
(***************************************************************************)
MaxCorrupt == 2

ClientInit ==
    /\ m = DataShards
    /\ n = TotalShards
    /\ InitNodes
    /\ reqs = {}
    /\ \E blob \in Blobs, seed \in Seeds : cl = NewClient(blob, seed)

\* docker compose stop
Stop(s) ==
    /\ cl.pc = "complete"
    /\ up[s]
    /\ up' = [up EXCEPT ![s] = FALSE]
    /\ UNCHANGED <<m, n, nodeVars, now, calls, net, reqs, cl>>

\* the fragment files as the client's disperse left them
Intact(s, k) == files[s][k] = cl.shards[k[2] + 1]

\* the first byte of a fragment file is flipped (b[0] xor 0xFF)
Corrupt(s, k) ==
    /\ cl.pc = "complete"
    /\ Intact(s, k)
    /\ Cardinality({x \in Nodes \X FragKeys : ~Intact(x[1], x[2])}) < MaxCorrupt
    /\ files' = [files EXCEPT ![s][k] = [@ EXCEPT ![1] = 255 - @]]
    /\ UNCHANGED <<m, n, up, fpccs, commitChan, echoSeen, readySeen, readySent, tmps,
                   fpccsBucket, metaBucket, echoPut, readyPut, echoBucket,
                   readyBucket, now, calls, net, reqs, cl>>

InOrder(s) == \A t \in Servers : t < s => (t \in cl.sent \/ cl.rpc[t] # 0)

ClientNext ==
    \/ \E i \in DOMAIN calls : LocalStep(i)
    \/ Gossip
    \/ Calm /\ \E i \in DOMAIN calls : DisperseCommitted(i)
    \/ Calm /\ ~Waking /\ ClientEncode
    \/ Calm /\ ~Waking /\ \E s \in Servers : InOrder(s) /\ ClientSend(s)
    \/ Calm /\ ~Waking /\ \E s \in Servers : ClientRecv(s)
    \/ Calm /\ ~Waking /\ ClientRound
    \/ \E s \in Nodes : Stop(s)
    \/ \E s \in Nodes, k \in FragKeys : Corrupt(s, k)
    \/ ClientRetrieve

Client == ClientInit /\ [][ClientNext]_vars

(***************************************************************************)
(* Claims on the client, checked under Client.                             *)
(***************************************************************************)
Stopped == {s \in Nodes : ~up[s]}

NoCorruption == \A s \in Nodes, k \in FragKeys : Intact(s, k)

RetrieveErrors == {"failed to retrieve a valid shard-0", "cannot decode", "Decode"}

\* the client's retrieve has ended
Retrieved == cl.pc \in {"written", "panic"} \/ (cl.pc = "fatal" /\ cl.err \in RetrieveErrors)

\* C8: a retrieve after a complete disperse of a blob writes exactly the blob.
C8_RoundTrip == cl.pc = "written" => cl.out = cl.blob

\* C9: after a complete disperse, with at least one and at most f nodes stopped
\* and no file corrupted, retrieve writes the blob.
C9_Availability ==
    (Retrieved /\ Stopped # {} /\ Cardinality(Stopped) <= f /\ NoCorruption) =>
        (cl.pc = "written" /\ cl.out = cl.blob)

\* the shards retrieve() holds: the ones it will hand to Decode
Held == {i \in 0..(n - 1) : cl.got # <<>> /\ cl.got[i + 1] # NoShard}

\* C10: every fragment retrieve() holds for Decode has passed the SHA-256 and the
\* fingerprint check at its index against the FPCC it adopted; it decodes with at
\* least m of them, and with fewer it ends in an error and writes no output.
C10_OnlyVerifiedDecoded ==
    /\ \A i \in Held : HashOk(cl.rfpcc, i, cl.got[i + 1]) /\ FpOk(cl.rfpcc, i, cl.got[i + 1])
    /\ cl.pc \in {"decode", "written"} => Cardinality(Held) >= m
    /\ (Retrieved /\ Cardinality(Held) < m) => (cl.pc = "fatal" /\ cl.out = NoFile)

\* C10 witness: retrieve() has met corrupted fragments, kept fewer than m good
\* ones and ended with "cannot decode"
C10_Witness ==
    /\ cl.pc = "fatal" /\ cl.err = "cannot decode"
    /\ ~NoCorruption
    /\ Cardinality(Held) < m

\* the indices at which some running node serves a fragment file that verifies
\* against the FPCC the node holds
GoodIndices ==
    {i \in 0..(n - 1) :
        \E s \in Nodes :
            /\ up[s]
            /\ files[s][<<"obj", i>>] # NoFile
            /\ Verifies(fpccs[s]["obj"], i, files[s][<<"obj", i>>])}

\* C11: whenever the running nodes can supply fragments that verify at m distinct
\* indices, whichever they are, retrieve() ends by writing the output.
C11_AnyMFragments ==
    (Retrieved /\ Cardinality(GoodIndices) >= m) => cl.pc = "written"

(***************************************************************************)
(* Life: node 1 through its life.  Clients send it Disperse and Retrieve   *)
(* RPCs, the peers (nodes 2..n) send it Echo and Ready RPCs on any         *)
(* connection, its own Echo and Ready broadcasts come back to it (the peer *)
(* list holds the node itself), the batchers flush, the clock moves, the   *)
(* GC loop ticks, and the process is killed and started again.             *)
(*                                                                         *)
(* The steps of a handler between its locked section and its wait are      *)
(* taken at once (Busy), as in Cluster.  The clock's unit is of the order  *)
(* of the TTL, far above disperseTimeout: a Disperse does not wait across  *)
(* a move of the clock, and a handler that finds its commit channel closed *)
(* returns Ok (the timer of a select that has just begun has not fired).   *)
(***************************************************************************)
\* -ttl, in units of the clock
Ttl == 1

MaxNow == 2

MaxRestarts == 1

\* a request and its repeat
LifeReqs ==
    { Req(1, 0, ShardsA[1], FpccA, 1),
      Req(1, 0, ShardsA[1], FpccA, 2) }

\* no RetrieveResponse yet
NoResp == [Ok |-> FALSE, Fragment |-> NoShard, Fpcc |-> NilFPCC, idx |-> -1]

\* what the clients of node 1 have seen: the last RetrieveResponse (and the index
\* asked for), the Disperse calls that repeat a request already answered Ok, the
\* number of times the node was started again
LifeInit ==
    /\ m = DataShards
    /\ n = TotalShards
    /\ InitNodes
    /\ reqs = LifeReqs
    /\ cl = [pc |-> "life", resp |-> NoResp, dups |-> {}, restarts |-> 0]

\* call c was made with the request r
SameRequest(c, r) ==
    c.node = r.node /\ c.o = r.o /\ c.idx = r.idx /\ c.frag = r.frag /\ c.fpcc = r.fpcc

\* a Disperse RPC of a client reaches node 1
LifeBegin(r) ==
    /\ r \in reqs
    /\ r.node = 1
    /\ reqs' = reqs \ {r}
    /\ DisperseLocked(1, r, "any")
    /\ cl' = [cl EXCEPT !.dups =
                 IF \E i \in DOMAIN calls : SameRequest(calls[i], r) /\ calls[i].result = "ok"
                 THEN @ \cup {Len(calls) + 1} ELSE @]
    /\ UNCHANGED <<m, n, up, readySeen, readySent, files, tmps, fpccsBucket,
                   echoPut, readyPut, echoBucket, readyBucket, now, net>>

\* the connections of the peers, nodes 2..n: here one address for each peer
PeerAddrs(seen) ==
    {a \in NextAddrs(seen \cup {b \in Addrs : b[1] = 1 \/ b[2] # 1}) : a[1] # 1 /\ a[2] = 1}

LifePeerEcho ==
    \E a \in PeerAddrs(echoSeen[1]["obj"]) :
        Echo(Msg("Echo", a[1], 1, "obj", CHOOSE x \in SentFpccs : TRUE), a[2], net)

LifePeerReady ==
    \E a \in PeerAddrs(readySeen[1]["obj"]) :
        Ready(Msg("Ready", a[1], 1, "obj", CHOOSE x \in SentFpccs : TRUE), a[2], net)

\* an Echo or Ready RPC of the node's own broadcast reaches the node
SelfDeliver == \E msg \in BagToSet(net) : msg.dst = 1 /\ Deliver(msg)

AfterLoadRemoved(s, o, idx) == [files EXCEPT ![s][<<o, idx>>] = NoFile]

\* loadFragment: os.ReadFile leaves the fragment files as they are
AfterLoad(s, o, idx) == files

\* server.Retrieve at node 1, and the response its client gets
RetrieveRpc(idx) ==
    LET r == Retrieve(1, "obj", idx)
    IN  /\ up[1]
        /\ files' = AfterLoad(1, "obj", idx)
        /\ cl' = [cl EXCEPT !.resp = [Ok |-> r.Ok, Fragment |-> r.Fragment,
                                      Fpcc |-> r.Fpcc, idx |-> idx]]
        /\ UNCHANGED <<m, n, up, fpccs, commitChan, echoSeen, readySeen, readySent,
                       tmps, fpccsBucket, metaBucket, echoPut, readyPut, echoBucket,
                       readyBucket, now, calls, net, reqs>>

\* Batcher.loop: flush() writes the buffered puts to the bucket in one transaction
FlushEcho ==
    /\ echoPut[1] # {}
    /\ echoBucket' = [echoBucket EXCEPT ![1] = @ \cup echoPut[1]]
    /\ echoPut' = [echoPut EXCEPT ![1] = {}]
    /\ UNCHANGED <<m, n, up, fpccs, commitChan, echoSeen, readySeen, readySent, files,
                   tmps, fpccsBucket, metaBucket, readyPut, readyBucket, now, calls,
                   net, reqs, cl>>

FlushReady ==
    /\ readyPut[1] # {}
    /\ readyBucket' = [readyBucket EXCEPT ![1] = @ \cup readyPut[1]]
    /\ readyPut' = [readyPut EXCEPT ![1] = {}]
    /\ UNCHANGED <<m, n, up, fpccs, commitChan, echoSeen, readySeen, readySent, files,
                   tmps, fpccsBucket, metaBucket, echoPut, echoBucket, now, calls,
                   net, reqs, cl>>

\* time passes
Tick ==
    /\ now < MaxNow
    /\ \A i \in DOMAIN calls : calls[i].pc = "done"
    /\ now' = now + 1
    /\ UNCHANGED <<m, n, up, nodeVars, calls, net, reqs, cl>>

\* gcExpired: the objects whose meta entry is older than the TTL
Expired == {o \in ObjectIds : metaBucket[1][o] # NoMeta /\ now - metaBucket[1][o] > Ttl}

\* gcLoop ticks: gcExpired and deleteObject for every expired object: the
\* fragment directory, the fpccs and meta entries, the "<obj>|" keys of the
\* echoSeen and readySeen buckets
GcTick ==
    /\ up[1]
    /\ Expired # {}
    /\ files' = [files EXCEPT ![1] = [k \in FragKeys |-> IF k[1] \in Expired THEN NoFile ELSE @[k]]]
    /\ tmps' = [tmps EXCEPT ![1] = [k \in FragKeys |-> IF k[1] \in Expired THEN NoFile ELSE @[k]]]
    /\ fpccsBucket' = [fpccsBucket EXCEPT ![1] =
                          [o \in ObjectIds |-> IF o \in Expired THEN NilFPCC ELSE @[o]]]
    /\ metaBucket' = [metaBucket EXCEPT ![1] =
                          [o \in ObjectIds |-> IF o \in Expired THEN NoMeta ELSE @[o]]]
    /\ echoBucket' = [echoBucket EXCEPT ![1] = {k \in @ : k[1] \notin Expired}]
    /\ readyBucket' = [readyBucket EXCEPT ![1] = {k \in @ : k[1] \notin Expired}]
    /\ UNCHANGED <<m, n, up, fpccs, commitChan, echoSeen, readySeen, readySent,
                   echoPut, readyPut, now, calls, net, reqs, cl>>

\* the senders a bucket holds for object o
Reloaded(bucket, o) == {k[2] : k \in {x \in bucket : x[1] = o}}

\* the process is killed and started again: main and newServer.  The memory of
\* the old process is gone, and with it the batches not yet flushed, its handlers
\* and its broadcasts; echoSeen and readySeen are read from their buckets
Restart ==
    /\ cl.restarts < MaxRestarts
    /\ fpccs' = [fpccs EXCEPT ![1] = [o \in ObjectIds |-> NilFPCC]]
    /\ commitChan' = [commitChan EXCEPT ![1] = [o \in ObjectIds |-> "nil"]]
    /\ readySent' = [readySent EXCEPT ![1] = [o \in ObjectIds |-> FALSE]]
    /\ echoSeen' = [echoSeen EXCEPT ![1] = [o \in ObjectIds |-> Reloaded(echoBucket[1], o)]]
    /\ readySeen' = [readySeen EXCEPT ![1] = [o \in ObjectIds |-> Reloaded(readyBucket[1], o)]]
    /\ echoPut' = [echoPut EXCEPT ![1] = {}]
    /\ readyPut' = [readyPut EXCEPT ![1] = {}]
    /\ calls' = [i \in DOMAIN calls |->
                    IF calls[i].pc # "done" THEN Return(calls[i], "aborted") ELSE calls[i]]
    /\ net' = EmptyBag
    /\ cl' = [cl EXCEPT !.restarts = @ + 1]
    /\ UNCHANGED <<m, n, up, files, tmps, fpccsBucket, metaBucket, echoBucket,
                   readyBucket, now, reqs>>

\* a batcher holds puts it has not flushed (it flushes every 250 ms: before the
\* node's next RPC, unless the process is killed or the GC loop ticks first)
Pending == echoPut[1] # {} \/ readyPut[1] # {}

\* no handler is in its local steps and no batch is waiting
Idle == ~Busy /\ ~Pending

LifeNext ==
    \/ Idle /\ Len(calls) < MaxCalls /\ \E r \in reqs : LifeBegin(r)
    \/ \E i \in DOMAIN calls : LocalStep(i)
    \/ Idle /\ \E i \in DOMAIN calls : DisperseCommitted(i)
    \/ Idle /\ ~Waking /\ \E i \in DOMAIN calls : DisperseTimeout(i)
    \/ Idle /\ ~Waking /\ LifePeerEcho
    \/ Idle /\ ~Waking /\ LifePeerReady
    \/ Idle /\ ~Waking /\ SelfDeliver
    \/ Idle /\ ~Waking /\ RetrieveRpc(0)
    \/ ~Busy /\ FlushEcho
    \/ ~Busy /\ FlushReady
    \/ Idle /\ ~Waking /\ Tick
    \/ ~Busy /\ ~Waking /\ GcTick
    \/ ~Busy /\ ~Waking /\ Restart

Life == LifeInit /\ [][LifeNext]_vars

(***************************************************************************)
(* Claims on the life of a node, checked under Life.                       *)
(***************************************************************************)
\* C12: a Retrieve changes nothing of the node's state (held FPCC, vote sets,
\* readySent, commit channel, fragment files, buckets), and its response is the
\* one a Retrieve of the same (o, i) gets in the state it leaves.
C12_RetrieveReadOnly ==
    [][(cl.pc = "life" /\ cl'.resp # cl.resp) =>
          LET r == cl'.resp
          IN  /\ UNCHANGED <<fpccs, commitChan, echoSeen, readySeen, readySent, files,
                             tmps, fpccsBucket, metaBucket, echoBucket, readyBucket>>
              /\ r.Ok = (files'[1][<<"obj", r.idx>>] # NoFile)
              /\ r.Ok => /\ r.Fragment = files'[1][<<"obj", r.idx>>]
                         /\ r.Fpcc = fpccs'[1]["obj"]]_vars

\* C12 witness: a Retrieve has been answered with a stored fragment
C12_Witness == cl.pc = "life" /\ cl.resp.Ok

\* C13: a RetrieveResponse with ok=true carries a fragment and an FPCC.
C13_OkOnlyWithFpcc ==
    (cl.pc = "life" /\ cl.resp.Ok) => cl.resp.Fpcc # NilFPCC

\* the connections on which node 1 has received its own Echo broadcasts
OwnEchoes == {a \in echoSeen[1]["obj"] : a[1] = 1 /\ a # SelfAddr(1)}

\* C14: a Disperse repeating, with the same fragment and FPCC, one that returned
\* Ok is answered Ok, its steps leave the held FPCC, created_at, the stored
\* fragment and both vote sets as they were, and the Echo votes of the node's own
\* broadcasts are those of the calls that were not repeats (node not restarted).
C14_DuplicateNoOp ==
    /\ [][\A i \in cl.dups \cap DOMAIN calls :
             (cl.restarts = 0 /\ calls'[i] # calls[i]) =>
                 /\ calls'[i].result \in {"", "ok"}
                 /\ UNCHANGED <<fpccs, metaBucket, echoSeen, readySeen>>
                 /\ files[1][<<"obj", 0>>] # NoFile => UNCHANGED files]_vars
    /\ [](cl.restarts = 0 =>
             Cardinality(OwnEchoes) <= Cardinality(DOMAIN calls \ cl.dups))

(***************************************************************************)
(* Claims on the votes, checked under Cluster.                             *)
(***************************************************************************)
\* the entries of a vote set made by RPCs of node q
VotesOf(seen, q) == {a \in seen : a[1] = q /\ a # SelfAddr(q)}

\* C15: however many Echo (resp. Ready) RPCs of one peer a node has handled for
\* the object, that peer accounts for at most one entry of echoSeen (resp.
\* readySeen).
C15_OncePerPeer ==
    \A s \in Nodes, q \in Nodes :
        /\ Cardinality(VotesOf(echoSeen[s]["obj"], q)) <= 1
        /\ Cardinality(VotesOf(readySeen[s]["obj"], q)) <= 1

(***************************************************************************)
(* Claims on one node's Disperse, checked under Spec.                      *)
(***************************************************************************)
\* the fragment of call c has another SHA-256 or another fingerprint than the
\* FPCC of the call gives for its index
BadFragment(c) ==
    \/ Sum256(c.frag) # c.fpcc.Hashes[c.idx + 1]
    \/ Eval(c.fpcc.Seed, c.frag) # c.fpcc.Fps[c.idx + 1]

C17_CommitOnce ==
    [][(cl.restarts' = cl.restarts /\ commitChan[1]["obj"] = "closed") =>
          /\ commitChan'[1]["obj"] = "closed"
          /\ \A i \in DOMAIN calls :
                 (calls[i].pc = "wait" /\ calls'[i].pc = "done") =>
                     calls'[i].result = "ok"]_vars

\* C17 witness: two Disperse calls have returned Ok, one of them made after the
\* channel was closed
C17_Witness ==
    /\ cl.pc = "life" /\ cl.restarts = 0
    /\ \E i \in cl.dups : calls[i].result = "ok"
    /\ commitChan[1]["obj"] = "closed"

(***************************************************************************)
(* Waits: the Disperse handlers of node 1 to their end.  The handler's     *)
(* steps are taken (weak fairness: the goroutine runs), a handler on a     *)
(* closed channel returns, and the timer of a waiting handler fires.  The  *)
(* Echo and Ready RPCs of the peers and of the node itself may arrive or   *)
(* not, before or after the handlers return.                               *)
(***************************************************************************)
WaitsStep == \E i \in DOMAIN calls : LocalStep(i)

WaitsCommitted == ~Busy /\ \E i \in DOMAIN calls : DisperseCommitted(i)

WaitsTimeout == ~Busy /\ ~Waking /\ \E i \in DOMAIN calls : DisperseTimeout(i)

WaitsNext ==
    \/ ~Busy /\ Len(calls) < MaxCalls /\ \E r \in reqs : LifeBegin(r)
    \/ WaitsStep
    \/ WaitsCommitted
    \/ WaitsTimeout
    \/ ~Busy /\ ~Waking /\ LifePeerEcho
    \/ ~Busy /\ ~Waking /\ LifePeerReady
    \/ ~Busy /\ ~Waking /\ SelfDeliver

Waits ==
    /\ LifeInit
    /\ [][WaitsNext]_vars
    /\ WF_vars(WaitsStep) /\ WF_vars(WaitsCommitted) /\ WF_vars(WaitsTimeout)

\* C18: every Disperse call returns; a handler that has reached the select
\* returns Ok if the commit channel is closed and the timeout otherwise; when it
\* returns the timeout the fragment file is there and the FPCC is held.
C18_Terminates ==
    /\ \A i \in 1..MaxCalls :
           (i \in DOMAIN calls /\ calls[i].pc # "done") ~>
               (i \in DOMAIN calls /\ calls[i].pc = "done")
    /\ [][\A i \in DOMAIN calls :
              (calls[i].pc = "wait" /\ calls'[i].pc = "done") =>
                  /\ calls'[i].result =
                         (IF commitChan[1]["obj"] = "closed"
                          THEN "ok" ELSE "timeout waiting for readies")
                  /\ files'[1][Key(calls[i])] # NoFile
                  /\ fpccs'[1]["obj"] = calls[i].fpcc]_vars

\* C18 witness: a Disperse returned the timeout, its fragment is stored, and the
\* object's commit channel was closed afterwards
C18_Witness ==
    \E i \in DOMAIN calls :
        /\ calls[i].result = "timeout waiting for readies"
        /\ files[1][Key(calls[i])] = calls[i].frag
        /\ fpccs[1]["obj"] = calls[i].fpcc
        /\ commitChan[1]["obj"] = "closed"

(***************************************************************************)
(* Claims on garbage collection and restart, checked under Life.           *)
(***************************************************************************)
\* node 1 holds nothing of the object: no fragment file, no FPCC in memory or in
\* the fpccs bucket, no Echo or Ready sender in memory or in the buckets, no meta
Absent ==
    /\ \A k \in FragKeys : k[1] = "obj" => files[1][k] = NoFile
    /\ fpccs[1]["obj"] = NilFPCC /\ fpccsBucket[1]["obj"] = NilFPCC
    /\ echoSeen[1]["obj"] = {} /\ readySeen[1]["obj"] = {}
    /\ Reloaded(echoBucket[1], "obj") = {} /\ Reloaded(readyBucket[1], "obj") = {}
    /\ metaBucket[1]["obj"] = NoMeta

\* C19: the GC tick that finds the object expired (it removes its meta entry)
\* leaves the node holding nothing of the object, and nothing of it comes back
\* by a step of the batchers, the GC loop, the clock, a Retrieve or a restart
\* (the steps in which no Disperse, Echo or Ready for the object is handled).
C19_GcCompleteness ==
    [][/\ (metaBucket[1]["obj"] # NoMeta /\ metaBucket'[1]["obj"] = NoMeta) => Absent'
       /\ (Absent /\ (FlushEcho \/ FlushReady \/ GcTick \/ Tick \/ RetrieveRpc(0) \/ Restart))
              => Absent']_vars

\* C20: when the node process has been started again, its Echo and Ready sender
\* sets are the ones of the buckets and the FPCC it holds for the object is the
\* one of the fpccs bucket; and the FPCC a Disperse handled after the restart is
\* compared with is the one of the fpccs bucket.
C20_RestartRecovery ==
    [][/\ cl.restarts' # cl.restarts =>
              /\ echoSeen'[1]["obj"] = Reloaded(echoBucket'[1], "obj")
              /\ readySeen'[1]["obj"] = Reloaded(readyBucket'[1], "obj")
              /\ fpccs'[1]["obj"] = fpccsBucket'[1]["obj"]
       /\ (cl.restarts > 0 /\ Len(calls') > Len(calls)) =>
              calls'[Len(calls')].held = fpccsBucket[1]["obj"]]_vars

(***************************************************************************)
(* Outage: the client's main in disperse mode against a cluster of which   *)
(* any set of nodes is stopped: the liveness probe, then disperse() as in  *)
(* Happy; a Disperse handler waits out its 20 s once no RPC is under way.  *)
(***************************************************************************)
\* pingPeers: the peers a TCP connection can be opened to
pingPeers == Cardinality({s \in Servers : up[s]})

ClientPingPasses == FALSE

\* main, line 297: the probe must reach 2f peers
ClientPingFails == pingPeers < 2 * f

\* main, lines 295-301 (disperse mode)
ClientPing ==
    /\ cl.pc = "ping"
    /\ cl' = IF ClientPingFails THEN Fatal(cl, "quorum impossible")
             ELSE [cl EXCEPT !.pc = "start"]
    /\ UNCHANGED <<m, n, up, nodeVars, now, calls, net, reqs>>

\* the 6-node cluster of the deployment script (m=4, n=6), with the nodes that
\* are down when the client starts
ScenarioData == 4
ScenarioTotal == 6
ScenarioSilent == 3

\* Either the small cluster with every node running, or the 6-node cluster
\* with ScenarioSilent of its nodes already stopped.
OutageInit ==
    /\ \/ /\ m = DataShards
          /\ n = TotalShards
          /\ up = [s \in Nodes |-> TRUE]
       \/ /\ m = ScenarioData
          /\ n = ScenarioTotal
          /\ up = [s \in Nodes |-> s > ScenarioSilent]
    /\ InitStores
    /\ reqs = {}
    /\ cl = [NewClient(BlobA, SeedA) EXCEPT !.pc = "ping"]

\* docker compose stop, before the client runs (the nodes are alike: they are
\* stopped in increasing order)
OutageStop(s) ==
    /\ cl.pc = "ping"
    /\ up[s]
    /\ \A t \in Nodes : t > s => up[t]
    /\ up' = [up EXCEPT ![s] = FALSE]
    /\ UNCHANGED <<m, n, nodeVars, now, calls, net, reqs, cl>>

OutageNext ==
    \/ \E s \in Nodes : OutageStop(s)
    \/ ClientPing
    \/ \E i \in DOMAIN calls : LocalStep(i)
    \/ Gossip
    \/ Calm /\ \E i \in DOMAIN calls : DisperseCommitted(i)
    \/ Calm /\ Quiet /\ ~Waking /\ \E i \in DOMAIN calls : DisperseTimeout(i)
    \/ Calm /\ ~Waking /\ ClientEncode
    \/ Calm /\ ~Waking /\ \E s \in Servers : InOrder(s) /\ ClientSend(s)
    \/ Calm /\ ~Waking /\ \E s \in Servers : ClientRecv(s)
    \/ Calm /\ ~Waking /\ ClientRound

Outage == OutageInit /\ [][OutageNext]_vars

\* C21: after the liveness probe, if fewer than 2f peers could be reached the
\* client has ended with "quorum impossible" and no node has been sent a
\* Disperse; if at least 2f could be reached it has not ended that way.
C21_QuorumImpossible ==
    cl.pc # "ping" =>
        IF pingPeers < 2 * f
        THEN cl.pc = "fatal" /\ cl.err = "quorum impossible" /\ calls = <<>>
        ELSE cl.err # "quorum impossible"

\* C21 witness: the probe reached fewer than 2f peers and the client has aborted
C21_Witness ==
    /\ cl.pc = "fatal" /\ cl.err = "quorum impossible"
    /\ pingPeers < 2 * f

(***************************************************************************)
(* Codec: package erasure on its own.  New(m, n) for any pair of small     *)
(* integers, Encode of any blob, up to n - m shards set to nil, Decode     *)
(* with the length Encode returned.                                        *)
(***************************************************************************)
MaxData == 2

MaxParity == 2

\* the caller of the package before New
NewCodec(blob) == [pc |-> "new", blob |-> blob, shards |-> <<>>, size |-> 0,
                   out |-> NoFile, err |-> ""]

CodecInit ==
    /\ m \in -1..MaxData
    /\ n \in -1..(MaxData + MaxParity)
    /\ n <= m + MaxParity
    /\ InitNodes
    /\ reqs = {}
    /\ \E blob \in Blobs : cl = NewCodec(blob)

\* erasure.New
CodecNew ==
    /\ cl.pc = "new"
    /\ cl' = IF NewOk(m, n) THEN [cl EXCEPT !.pc = "encode"]
             ELSE Fatal(cl, "invalid shard parameters")
    /\ UNCHANGED <<m, n, up, nodeVars, now, calls, net, reqs>>

\* Encoder.Encode: the shards and len(input)
CodecEncode ==
    /\ cl.pc = "encode"
    /\ cl' = IF ~EncodeOk(cl.blob) THEN Fatal(cl, "split data into shards")
             ELSE [cl EXCEPT !.pc = "encoded", !.shards = Encode(cl.blob, m, n),
                             !.size = Len(cl.blob)]
    /\ UNCHANGED <<m, n, up, nodeVars, now, calls, net, reqs>>

\* the caller loses a shard (shards[i] = nil), at most n - m of them
CodecDrop(i) ==
    /\ cl.pc = "encoded"
    /\ i \in Present(cl.shards)
    /\ n - Cardinality(Present(cl.shards)) < n - m
    /\ cl' = [cl EXCEPT !.shards[i] = NoShard]
    /\ UNCHANGED <<m, n, up, nodeVars, now, calls, net, reqs>>

\* Encoder.Decode
CodecDecode ==
    /\ cl.pc = "encoded"
    /\ cl' = IF ~DecodeOk(cl.shards, cl.size, m, n) THEN Fatal(cl, "reconstruct shards")
             ELSE [cl EXCEPT !.pc = "decoded", !.out = Decode(cl.shards, cl.size, m, n)]
    /\ UNCHANGED <<m, n, up, nodeVars, now, calls, net, reqs>>

CodecNext ==
    \/ CodecNew
    \/ CodecEncode
    \/ \E i \in 1..(MaxData + MaxParity) : CodecDrop(i)
    \/ CodecDecode

Codec == CodecInit /\ [][CodecNext]_vars

\* C22: with parameters New accepts, Encode of every blob succeeds, and Decode
\* of its shards with at most n - m of them nil, and the length of the blob,
\* succeeds and returns the blob.
C22_CodecRoundTrip ==
    /\ (cl.pc = "fatal" /\ m > 0 /\ n >= m) => FALSE
    /\ cl.pc = "decoded" => cl.out = cl.blob

\* C23: New(m, n) returns an error exactly when not 0 < m < n.
C23_NewParameters ==
    cl.pc # "new" =>
        ((cl.pc = "fatal" /\ cl.err = "invalid shard parameters") <=> ~(0 < m /\ m < n))

(***************************************************************************)
(* Fp: package fingerprint on its own, as its tests use it: a seed, two    *)
(* byte sequences of one length, their byte-wise sum modulo 256, and the   *)
(* fingerprints of the three; then the first is evaluated once more.       *)
(***************************************************************************)
MaxFpLen == 3

FpInit ==
    /\ m = DataShards
    /\ n = TotalShards
    /\ InitNodes
    /\ reqs = {}
    /\ \E seed \in Seeds, a \in SeqsUpTo(MaxFpLen), b \in SeqsUpTo(MaxFpLen) :
           /\ Len(a) = Len(b)
           /\ cl = [pc |-> "fp", seed |-> seed, a |-> a, b |-> b, sum |-> <<>>,
                    fa |-> U64(0), fb |-> U64(0), fs |-> U64(0), again |-> U64(0)]

\* TestEvalHomomorphic, lines 31-38
FpEval ==
    /\ cl.pc = "fp"
    /\ LET sum == [i \in 1..Len(cl.a) |-> (cl.a[i] + cl.b[i]) % 256]
       IN  cl' = [cl EXCEPT !.pc = "evaluated", !.sum = sum,
                            !.fa = Eval(cl.seed, cl.a), !.fb = Eval(cl.seed, cl.b),
                            !.fs = Eval(cl.seed, sum)]
    /\ UNCHANGED <<m, n, up, nodeVars, now, calls, net, reqs>>

\* another Eval of the same bytes by a Fingerprint of the same seed
FpAgain ==
    /\ cl.pc = "evaluated"
    /\ cl' = [cl EXCEPT !.pc = "again", !.again = Eval(cl.seed, cl.a)]
    /\ UNCHANGED <<m, n, up, nodeVars, now, calls, net, reqs>>

FpNext == FpEval \/ FpAgain

Fp == FpInit /\ [][FpNext]_vars

\* C24: the fingerprint of the byte-wise sum modulo 256 of two sequences of one
\* length is the sum modulo 2^64 of their fingerprints.
C24_Homomorphism ==
    cl.pc = "evaluated" => cl.fs = U64Add(cl.fa, cl.fb)

\* r^k modulo 2^64
RECURSIVE U64Pow(_, _)
U64Pow(r, k) == IF k = 0 THEN U64(1) ELSE U64Mul(r, U64Pow(r, k - 1))

\* data[1]*r^(L-1) + data[2]*r^(L-2) + .. + data[L] modulo 2^64, term by term
RECURSIVE PolySum(_, _, _)
PolySum(r, data, i) ==
    IF i > Len(data) THEN U64(0)
    ELSE U64Add(U64Mul(U64(data[i]), U64Pow(r, Len(data) - i)), PolySum(r, data, i + 1))

SendersIn(seen) == {a[1] : a \in seen}

\* C26: a node that has handled Ready RPCs of at least f+1 peers for the object
\* has sent its own Ready (readySent is set in the handler that starts the
\* broadcast), whether or not it has reached the Echo threshold.
C26_ReadyAmplification ==
    \A s \in Nodes :
        Cardinality(SendersIn(readySeen[s]["obj"])) >= f + 1 => readySent[s]["obj"]

\* C27: at a node whose readySeen holds senders of at least 2f+1 peers, the
\* commit channel a Disperse handler of the object waits on is closed (so the
\* handler returns Ok), whenever those Ready RPCs were handled.
C27_CommittedOnReadies ==
    \A i \in DOMAIN calls :
        (/\ calls[i].pc = "wait"
         /\ Cardinality(SendersIn(readySeen[calls[i].node][calls[i].o])) >= 2 * f + 1)
            => Committed(calls[i].node, calls[i].o)

\* C28: the step in which a node starts its Ready broadcast (readySent becomes
\* true) leaves echoSeen holding senders of at least m+f peers, and the node has
\* not already recorded a Ready of its own, sent by an earlier broadcast.
C28_ReadyOnceAtThreshold ==
    [][\A s \in Nodes :
          (~readySent[s]["obj"] /\ readySent'[s]["obj"]) =>
              /\ Cardinality(SendersIn(echoSeen'[s]["obj"])) >= m + f
              /\ s \notin SendersIn(readySeen[s]["obj"])]_vars

\* C29: while some node of the cluster has sent no Echo for the object, no node
\* has broadcast Ready for it and no node has committed it.
C29_CommitNeedsEveryPeer ==
    (\E q \in Nodes : ~Echoed(q)) =>
        \A s \in Nodes : ~readySent[s]["obj"] /\ ~Committed(s, "obj")

\* C30: in the 6-node cluster with (m, n) = (4, 6) and 3 of the 6 nodes down,
\* once the client has ended it has failed because Disperse calls of the nodes
\* returned the commit timeout, no node has committed, and every node that is
\* up serves the fragments it wrote.
C30_CommitTimeoutScenario ==
    (/\ m = ScenarioData /\ n = ScenarioTotal
     /\ Cardinality({s \in Nodes : ~up[s]}) = ScenarioSilent
     /\ cl.pc \in {"fatal", "complete"}) =>
        /\ cl.pc = "fatal"
        /\ cl.err = "failed after 3 attempts"
        /\ \E i \in DOMAIN calls :
               calls[i].pc = "done" /\ calls[i].result = "timeout waiting for readies"
        /\ \A s \in Nodes : ~Committed(s, "obj")
        /\ \A s \in Nodes : \A idx \in 0..(n - 1) :
               (up[s] /\ files[s][<<"obj", idx>>] # NoFile) => Retrieve(s, "obj", idx).Ok

\* C31: once a node has a fragment file for (o, i), no step changes its content
\* (no object is garbage-collected in this specification), also while Disperse
\* calls for the same (o, i) run concurrently.
C31_FragmentsImmutable ==
    [][\A s \in Nodes, k \in FragKeys :
           files[s][k] # NoFile => files'[s][k] = files[s][k]]_vars

\* C32: the fpccs bucket entry and the meta created_at of an object at node 1,
\* once written, are changed by no step but the GC tick that deletes the expired
\* object; no later Disperse, also after a restart, overwrites them.
C32_PersistedOnce ==
    [][\A o \in ObjectIds :
           /\ metaBucket[1][o] # NoMeta =>
                  \/ metaBucket'[1][o] = metaBucket[1][o]
                  \/ o \in Expired /\ metaBucket'[1][o] = NoMeta
           /\ fpccsBucket[1][o] # NilFPCC =>
                  \/ fpccsBucket'[1][o] = fpccsBucket[1][o]
                  \/ o \in Expired /\ fpccsBucket'[1][o] = NilFPCC]_vars

(***************************************************************************)
(* Gc: node 1 with several objects.  An ObjectId is any string (the        *)
(* client's -id flag and the ObjectId field are not validated), here a     *)
(* sequence of characters; the fragment path and the bucket keys are the   *)
(* strings the code builds from it.                                        *)
(***************************************************************************)
GcIds == {<<"a">>, <<"a", "b">>, <<"a", "|", "b">>, <<"a", "/", "b">>}

Digit(i) == <<"0", "1", "2", "3", "4", "5", "6", "7", "8", "9">>[i + 1]

\* p.Addr.String(), "<host>:<port>"
AddrString(a) == <<Digit(a[1]), ":", Digit(a[2])>>

\* fmt.Sprintf("%s|%s", req.ObjectId, peerAddr)
BucketKey(o, a) == o \o <<"|">> \o AddrString(a)

\* filepath.Join(s.dataDir, obj, fmt.Sprintf("%d.bin", idx)), below dataDir
fragPath(o, idx) == o \o <<"/", Digit(idx), ".bin">>

\* bytes.HasPrefix, and a path below a directory
HasPrefix(str, prefix) ==
    Len(prefix) <= Len(str) /\ SubSeq(str, 1, Len(prefix)) = prefix

GcFragKeys == {<<o, i>> : o \in GcIds, i \in 0..(n - 1)}

\* one Disperse request for each object
GcReqs == {[Req(1, 0, ShardsA[1], FpccA, 1) EXCEPT !.o = o] : o \in GcIds}

GcInit ==
    /\ m = DataShards
    /\ n = TotalShards
    /\ up = [s \in Nodes |-> TRUE]
    /\ fpccs = [s \in Nodes |-> [o \in GcIds |-> NilFPCC]]
    /\ commitChan = [s \in Nodes |-> [o \in GcIds |-> "nil"]]
    /\ echoSeen = [s \in Nodes |-> [o \in GcIds |-> {}]]
    /\ readySeen = [s \in Nodes |-> [o \in GcIds |-> {}]]
    /\ readySent = [s \in Nodes |-> [o \in GcIds |-> FALSE]]
    /\ files = [s \in Nodes |-> [k \in GcFragKeys |-> NoFile]]
    /\ tmps = [s \in Nodes |-> [k \in GcFragKeys |-> NoFile]]
    /\ fpccsBucket = [s \in Nodes |-> [o \in GcIds |-> NilFPCC]]
    /\ metaBucket = [s \in Nodes |-> [o \in GcIds |-> NoMeta]]
    /\ echoPut = [s \in Nodes |-> {}]
    /\ readyPut = [s \in Nodes |-> {}]
    /\ echoBucket = [s \in Nodes |-> {}]
    /\ readyBucket = [s \in Nodes |-> {}]
    /\ now = 0
    /\ calls = <<>>
    /\ net = EmptyBag
    /\ reqs = GcReqs
    /\ cl = [pc |-> "gc"]

\* a Disperse RPC of a client reaches node 1
GcBegin(r) ==
    /\ r \in reqs
    /\ reqs' = reqs \ {r}
    /\ DisperseLocked(1, r, "any")
    /\ UNCHANGED <<m, n, up, readySeen, readySent, files, tmps, fpccsBucket,
                   echoPut, readyPut, echoBucket, readyBucket, now, net, cl>>

\* an Echo or a Ready of node 2 reaches node 1 from the address <<2, 1>>, for an
\* object o that has been dispersed to node 1
GcPeerEcho(o) ==
    /\ HasState(1, o)
    /\ PeerAddr(2, 1) \notin echoSeen[1][o]
    /\ Echo(Msg("Echo", 2, 1, o, FpccA), 1, net)

GcPeerReady(o) ==
    /\ HasState(1, o)
    /\ PeerAddr(2, 1) \notin readySeen[1][o]
    /\ Ready(Msg("Ready", 2, 1, o, FpccA), 1, net)

\* Batcher.loop: flush() writes the buffered puts, each under the key its
\* handler formatted, to the bucket in one transaction
GcFlushEcho ==
    /\ echoPut[1] # {}
    /\ echoBucket' = [echoBucket EXCEPT ![1] = @ \cup {BucketKey(k[1], k[2]) : k \in echoPut[1]}]
    /\ echoPut' = [echoPut EXCEPT ![1] = {}]
    /\ UNCHANGED <<m, n, up, fpccs, commitChan, echoSeen, readySeen, readySent, files,
                   tmps, fpccsBucket, metaBucket, readyPut, readyBucket, now, calls,
                   net, reqs, cl>>

GcFlushReady ==
    /\ readyPut[1] # {}
    /\ readyBucket' = [readyBucket EXCEPT ![1] = @ \cup {BucketKey(k[1], k[2]) : k \in readyPut[1]}]
    /\ readyPut' = [readyPut EXCEPT ![1] = {}]
    /\ UNCHANGED <<m, n, up, fpccs, commitChan, echoSeen, readySeen, readySent, files,
                   tmps, fpccsBucket, metaBucket, echoPut, echoBucket, now, calls,
                   net, reqs, cl>>

\* gcExpired: the keys of the meta bucket whose entry is older than the TTL
GcExpired == {o \in GcIds : metaBucket[1][o] # NoMeta /\ now - metaBucket[1][o] > Ttl}

\* os.RemoveAll(filepath.Join(s.dataDir, obj)) for the expired objects: the
\* directory and everything below it
RemoveAll(fs, objs) ==
    [k \in DOMAIN fs |->
        IF \E o \in objs : HasPrefix(fragPath(k[1], k[2]), o \o <<"/">>)
        THEN NoFile ELSE fs[k]]

\* the cursor loop of deleteObject: the keys that start with obj + "|"
DeletePrefix(bucket, objs) ==
    {k \in bucket : ~\E o \in objs : HasPrefix(k, o \o <<"|">>)}

\* gcLoop ticks: gcExpired, and deleteObject for every expired object
gcExpired ==
    /\ GcExpired # {}
    /\ files' = [files EXCEPT ![1] = RemoveAll(@, GcExpired)]
    /\ tmps' = [tmps EXCEPT ![1] = RemoveAll(@, GcExpired)]
    /\ fpccsBucket' = [fpccsBucket EXCEPT ![1] =
                          [o \in GcIds |-> IF o \in GcExpired THEN NilFPCC ELSE @[o]]]
    /\ metaBucket' = [metaBucket EXCEPT ![1] =
                          [o \in GcIds |-> IF o \in GcExpired THEN NoMeta ELSE @[o]]]
    /\ echoBucket' = [echoBucket EXCEPT ![1] = DeletePrefix(@, GcExpired)]
    /\ readyBucket' = [readyBucket EXCEPT ![1] = DeletePrefix(@, GcExpired)]
    /\ UNCHANGED <<m, n, up, fpccs, commitChan, echoSeen, readySeen, readySent,
                   echoPut, readyPut, now, calls, net, reqs, cl>>

GcNext ==
    \/ Idle /\ Len(calls) < MaxCalls /\ \E r \in reqs : GcBegin(r)
    \/ \E i \in DOMAIN calls : LocalStep(i)
    \/ Idle /\ \E i \in DOMAIN calls : DisperseTimeout(i)
    \/ Idle /\ \E o \in GcIds : GcPeerEcho(o)
    \/ Idle /\ \E o \in GcIds : GcPeerReady(o)
    \/ ~Busy /\ GcFlushEcho
    \/ ~Busy /\ GcFlushReady
    \/ Idle /\ Tick
    \/ Idle /\ gcExpired

Gc == GcInit /\ [][GcNext]_vars

\* the senders whose vote for object o a bucket holds
EvidenceOf(bucket, o) ==
    {a \in Addrs \cup {SelfAddr(1)} : BucketKey(o, a) \in bucket}

\* C33: a GC tick deletes the state only of expired objects: in a step that
\* removes a meta entry, every object that is not expired keeps its fragment
\* files, its FPCC entry, its Echo and Ready evidence and its meta entry,
\* whatever its ObjectId is.
C33_GcOnlyExpired ==
    [][(\E x \in GcIds : metaBucket[1][x] # NoMeta /\ metaBucket'[1][x] = NoMeta) =>
           \A o \in GcIds \ GcExpired :
               /\ \A i \in 0..(n - 1) : files'[1][<<o, i>>] = files[1][<<o, i>>]
               /\ fpccsBucket'[1][o] = fpccsBucket[1][o]
               /\ metaBucket'[1][o] = metaBucket[1][o]
               /\ EvidenceOf(echoBucket'[1], o) = EvidenceOf(echoBucket[1], o)
               /\ EvidenceOf(readyBucket'[1], o) = EvidenceOf(readyBucket[1], o)]_vars

(***************************************************************************)
(* Batch: one Batcher and the handlers that call Put.  The i-th Put of the *)
(* process carries the key i (the handlers' keys, taken as distinct); the  *)
(* value is always the byte 1.  cl is the Batcher: the puts handed to it,  *)
(* its channel, the buffer of its loop and the keys its bucket holds.      *)
(***************************************************************************)
\* make(chan kv, 1024)
ChanCap == 1024

\* len(buf) >= 100
BatchSize == 100

\* the puts the handlers make, and how many of them wait in the channel
MaxPuts == 101

MaxBacklog == 2

Range(seq) == {seq[i] : i \in DOMAIN seq}

\* NewBatcher
BatchInit ==
    /\ m = DataShards
    /\ n = TotalShards
    /\ InitNodes
    /\ reqs = {}
    /\ cl = [pc |-> "batcher", puts |-> 0, ch |-> <<>>, buf |-> <<>>, bucket |-> {}]

\* Batcher.Put: the send blocks while the channel is full
BatcherPut ==
    /\ cl.puts < MaxPuts
    /\ Len(cl.ch) < ChanCap
    /\ Len(cl.ch) < MaxBacklog
    /\ cl' = [cl EXCEPT !.puts = @ + 1, !.ch = Append(@, cl.puts + 1)]
    /\ UNCHANGED <<m, n, up, nodeVars, now, calls, net, reqs>>

BatchFullNever(buf) == FALSE

\* line 44
BatchFull(buf) == Len(buf) >= BatchSize

\* flush: nothing for an empty buffer; else one db.Update that puts every
\* buffered entry, and buf = buf[:0]
flush(b, buf) ==
    IF buf = <<>> THEN [b EXCEPT !.buf = buf]
    ELSE [b EXCEPT !.bucket = @ \cup Range(buf), !.buf = <<>>]

\* loop, case p := <-b.ch
BatcherRecv ==
    /\ cl.ch # <<>>
    /\ LET b   == [cl EXCEPT !.ch = Tail(@)]
           buf == Append(cl.buf, Head(cl.ch))
       IN  cl' = IF BatchFull(buf) THEN flush(b, buf) ELSE [b EXCEPT !.buf = buf]
    /\ UNCHANGED <<m, n, up, nodeVars, now, calls, net, reqs>>

\* loop, case <-ticker.C
BatcherTick ==
    /\ cl' = flush(cl, cl.buf)
    /\ UNCHANGED <<m, n, up, nodeVars, now, calls, net, reqs>>

BatchNext ==
    \/ BatcherPut
    \/ BatcherRecv
    \/ BatcherTick

\* the loop goroutine keeps running: select takes a ready case, and the ticker
\* fires every 250 ms
Batch == BatchInit /\ [][BatchNext]_vars /\ WF_vars(BatcherRecv) /\ WF_vars(BatcherTick)

C35_FlushOnShutdown ==
    [][cl'.restarts > cl.restarts =>
           /\ echoPut[1] \subseteq echoBucket'[1]
           /\ readyPut[1] \subseteq readyBucket'[1]]_vars

\* C36: a node has at most one entry of its own in echoSeen (the self-Echo of
\* Disperse and its own Echo broadcast coming back are one sender), and a node
\* that has sent Ready holds Echo entries of at least m+f distinct nodes.
C36_SelfCountedOnce ==
    \A s \in Nodes :
        /\ Cardinality({a \in echoSeen[s]["obj"] : a[1] = s}) <= 1
        /\ readySent[s]["obj"] => Cardinality(SendersIn(echoSeen[s]["obj"])) >= m + f

\* C37: every Ready RPC a node has started for the object comes from a node that
\* has accepted a Disperse for it (it holds an FPCC), and carries the FPCC that
\* node holds.
C37_ReadyCarriesHeldFpcc ==
    \A msg \in BagToSet(net) :
        msg.type = "Ready" =>
            /\ fpccs[msg.src][msg.o] # NilFPCC
            /\ msg.fpcc = fpccs[msg.src][msg.o]

(***************************************************************************)
(* BadInputs: node 1 and clients that send it malformed Disperse requests. *)
(* Indexing a slice out of range and reading a field of a nil FPCC are Go  *)
(* run-time panics; grpc-go does not recover a panic of a handler, so the  *)
(* panic ends the server process.                                          *)
(***************************************************************************)
\* an FPCC with fewer fingerprints than hashes
FpccShort == [FpccA EXCEPT !.Fps = SubSeq(@, 1, 1)]

\* a request with no FPCC; one whose index is the number of hashes; two whose
\* FPCC has 3 hashes and 1 fingerprint (index 0 and index 1); two well-formed ones
BadReqs ==
    { Req(1, 0, ShardsA[1], NilFPCC, 1),
      Req(1, TotalShards, ShardsA[1], FpccA, 1),
      Req(1, 0, ShardsA[1], FpccShort, 1),
      Req(1, 1, ShardsA[2], FpccShort, 1),
      Req(1, 0, ShardsA[1], FpccA, 1),
      Req(1, 1, ShardsA[2], FpccA, 1) }

BadInit ==
    /\ m = DataShards
    /\ n = TotalShards
    /\ up = [s \in Nodes |-> TRUE]
    /\ fpccs = [s \in Nodes |-> [o \in ObjectIds |-> NilFPCC]]
    /\ commitChan = [s \in Nodes |-> [o \in ObjectIds |-> "nil"]]
    /\ echoSeen = [s \in Nodes |-> [o \in ObjectIds |-> {}]]
    /\ readySeen = [s \in Nodes |-> [o \in ObjectIds |-> {}]]
    /\ readySent = [s \in Nodes |-> [o \in ObjectIds |-> FALSE]]
    /\ files = [s \in Nodes |-> [k \in {<<o, i>> : o \in ObjectIds, i \in 0..n} |-> NoFile]]
    /\ tmps = [s \in Nodes |-> [k \in {<<o, i>> : o \in ObjectIds, i \in 0..n} |-> NoFile]]
    /\ fpccsBucket = [s \in Nodes |-> [o \in ObjectIds |-> NilFPCC]]
    /\ metaBucket = [s \in Nodes |-> [o \in ObjectIds |-> NoMeta]]
    /\ echoPut = [s \in Nodes |-> {}]
    /\ readyPut = [s \in Nodes |-> {}]
    /\ echoBucket = [s \in Nodes |-> {}]
    /\ readyBucket = [s \in Nodes |-> {}]
    /\ now = 0
    /\ calls = <<>>
    /\ net = EmptyBag
    /\ reqs = BadReqs
    /\ cl = [pc |-> "bad"]

\* a run-time panic in a handler of node 1: the process ends, with its memory,
\* its handlers and its broadcasts; cs are the calls, the panicking one included
Panic(cs) ==
    /\ up' = [up EXCEPT ![1] = FALSE]
    /\ fpccs' = [fpccs EXCEPT ![1] = [o \in ObjectIds |-> NilFPCC]]
    /\ commitChan' = [commitChan EXCEPT ![1] = [o \in ObjectIds |-> "nil"]]
    /\ readySent' = [readySent EXCEPT ![1] = [o \in ObjectIds |-> FALSE]]
    /\ echoSeen' = [echoSeen EXCEPT ![1] = [o \in ObjectIds |-> {}]]
    /\ readySeen' = [readySeen EXCEPT ![1] = [o \in ObjectIds |-> {}]]
    /\ echoPut' = [echoPut EXCEPT ![1] = {}]
    /\ readyPut' = [readyPut EXCEPT ![1] = {}]
    /\ calls' = [i \in DOMAIN cs |->
                    IF cs[i].pc # "done" THEN Return(cs[i], "aborted") ELSE cs[i]]
    /\ net' = EmptyBag

\* eqFPCC panics on a nil FPCC (a.Seed, b.Seed) and, when seed and lengths are
\* equal, on the first i in range a.Hashes with no Fps[i], unless the loop has
\* returned or Hashes[i] differ (the || does not evaluate its right side then)
eqPanics(a, b) ==
    \/ a = NilFPCC
    \/ b = NilFPCC
    \/ /\ a.Seed = b.Seed
       /\ Len(a.Hashes) = Len(b.Hashes)
       /\ Len(a.Fps) = Len(b.Fps)
       /\ Len(a.Fps) < Len(a.Hashes)
       /\ \A j \in 1..Len(a.Fps) : a.Hashes[j] = b.Hashes[j] /\ a.Fps[j] = b.Fps[j]
       /\ a.Hashes[Len(a.Fps) + 1] = b.Hashes[Len(a.Fps) + 1]

\* lines 719-739 for any request
BadBegin(r) ==
    /\ r \in reqs
    /\ up[1]
    /\ reqs' = reqs \ {r}
    /\ IF HasState(1, r.o) /\ eqPanics(fpccs[1][r.o], r.fpcc)
       THEN /\ Panic(Append(calls, Return(NewCall(1, r, "any"), "panic")))
            /\ UNCHANGED <<files, tmps, fpccsBucket, metaBucket, echoBucket, readyBucket>>
       ELSE /\ DisperseLocked(1, r, "any")
            /\ UNCHANGED <<up, readySeen, readySent, files, tmps, fpccsBucket,
                           echoPut, readyPut, echoBucket, readyBucket, net>>
    /\ UNCHANGED <<m, n, now, cl>>

\* lines 742-747: req.Fpcc.Hashes[req.FragmentIndex] and, once the hash has
\* matched, req.Fpcc.Fps[req.FragmentIndex]
Panics(c) ==
    \/ c.fpcc = NilFPCC
    \/ c.idx >= Len(c.fpcc.Hashes)
    \/ HashOk(c.fpcc, c.idx, c.frag) /\ c.idx >= Len(c.fpcc.Fps)

BadCheck(i) ==
    /\ calls[i].pc = "check"
    /\ IF Panics(calls[i])
       THEN /\ Panic([calls EXCEPT ![i] = Return(@, "panic")])
            /\ UNCHANGED <<m, n, files, tmps, fpccsBucket, metaBucket, echoBucket,
                           readyBucket, now, reqs, cl>>
       ELSE DisperseCheck(i)

BadNext ==
    \/ Len(calls) < MaxCalls /\ \E r \in reqs : BadBegin(r)
    \/ \E i \in DOMAIN calls : BadCheck(i)
    \/ \E i \in DOMAIN calls : DisperseOpen(i)
    \/ \E i \in DOMAIN calls : DisperseWrite(i)
    \/ \E i \in DOMAIN calls : DisperseRename(i)
    \/ \E i \in DOMAIN calls : DisperseGossip(i)
    \/ \E i \in DOMAIN calls : DisperseTimeout(i)

BadInputs == BadInit /\ [][BadNext]_vars

\* the request of call c is malformed
Malformed(c) ==
    \/ c.fpcc = NilFPCC
    \/ c.idx >= Len(c.fpcc.Hashes)
    \/ c.idx >= Len(c.fpcc.Fps)
    \/ Len(c.fpcc.Hashes) # Len(c.fpcc.Fps)

\* C38: a malformed Disperse is answered with an error that a handler returns,
\* and no step of it changes the held FPCC, the Echo senders or the meta entry,
\* or ends the node process.
C38_MalformedRejected ==
    [][\A i \in DOMAIN calls' :
           (Malformed(calls'[i]) /\ (i \notin DOMAIN calls \/ calls'[i] # calls[i])) =>
               /\ calls'[i].result \notin {"ok", "panic", "timeout waiting for readies"}
               /\ UNCHANGED <<fpccs, echoSeen, metaBucket, up>>]_vars

\* C39: at node 1, every object that has a fragment file has a meta entry (its
\* created_at), after any sequence of Disperse, GC ticks and restarts.
C39_StoredHasMeta ==
    \A k \in FragKeys : files[1][k] # NoFile => metaBucket[1][k[1]] # NoMeta

(***************************************************************************)
(* Wide: the cluster with (m, n) = (2, 3) or with the 2-of-4 setup of the  *)
(* deployment script (f = 2: Echo threshold m+f = 4, Ready threshold       *)
(* 2f+1 = 5).  Every node is up and gets the Disperse of fragment 0 from   *)
(* an honest client; every Echo and Ready RPC is delivered.                *)
(***************************************************************************)
\* AVID_FP_ERASURE_DATA=2 AVID_FP_ERASURE_TOTAL=4
WideData == 2

WideTotal == 4

\* disperse(): fragment 0 of the blob and its FPCC, for every peer
WideReqs ==
    LET shards == Encode(BlobA, m, n)
        fpcc   == MakeFPCC(shards, SeedA)
    IN  {Req(s, 0, shards[1], fpcc, 1) : s \in Nodes}

WideInit ==
    /\ \/ m = DataShards /\ n = TotalShards
       \/ m = WideData /\ n = WideTotal
    /\ InitNodes
    /\ reqs = WideReqs
    /\ cl = NoClient

\* (of the concurrent fan-out only the arrival order of the peer list is
\* explored)
WideNext ==
    \/ \E i \in DOMAIN calls : LocalStep(i)
    \/ ~Busy /\ Prompt # {} /\ Deliver(FirstPrompt)
    \/ Calm /\ \E msg \in BagToSet(net) : Deliver(msg)
    \/ Calm /\ \E r \in reqs : (\A q \in reqs : r.node <= q.node) /\ DisperseBegin(r)
    \/ Calm /\ \E i \in DOMAIN calls : DisperseCommitted(i)
    \/ Calm /\ Quiet /\ ~Waking /\ \E i \in DOMAIN calls : DisperseTimeout(i)

\* every handler and broadcast that can run does run
Wide == WideInit /\ [][WideNext]_vars /\ WF_vars(WideNext)

\* C40: in every cluster the system accepts, the 2-of-4 setup included, with
\* every node up and reachable the dispersed object is eventually committed at
\* some node.
C40_ReadyThresholdAttainable == <>(\E s \in Nodes : Committed(s, "obj"))

====
